---- MODULE Spec2Model ----
(***************************************************************************)
(* Yukibot: workload supervision and relay core.                           *)
(*                                                                         *)
(* The program is single-threaded asyncio.  A coroutine runs without       *)
(* interruption until it reaches an await that really suspends (a sleep,   *)
(* network or subprocess I/O, a lock that is taken, a gather).  The model  *)
(* keeps that atomicity: `active` names the thread that is executing; only *)
(* that thread may step until it suspends (active' = NoThread), and then   *)
(* any suspended thread whose wait is over may resume.  Time is not        *)
(* modelled: a run of consecutive sleeps is one suspension.  The operating *)
(* system (process exit) acts at any moment.                               *)
(*                                                                         *)
(* Each thread carries a call stack of frames [fn, pc, app, n]; ret holds  *)
(* the value (or "raise") a callee handed to its caller.                   *)
(***************************************************************************)
EXTENDS Integers, Sequences, FiniteSets, TLC

\* ------------------------------------------------------------------ bounds
\* max_attempts of the protocol clients (a constructor parameter, 30 for
\* RCON and 20 for Telnet by default): kept small here.
MaxAttempts == 2
\* Sleeps of the poll loop in App._terminate (range(10) in the source) and of
\* the one in Minecraft.stop (range(10)): consecutive sleeps are one
\* suspension, so a short loop shows every interleaving.
TermPolls == 1
StopPolls == 1
\* The longest sequence of lines a TailSource produces.
MaxLines == 3
\* How often the platform delivers the event of one message.
MaxDeliveries == 2
\* How many outbound messages the matchers put on the Relay Queue.
MaxMessages == 3
\* MAX_LOG and PRUNE_CHUNK of Tailer._log_cleaner (5000 and 1000 in the
\* source, lines 153-154), scaled down in the same ratio.
MAX_LOG == 5
PRUNE_CHUNK == 1
\* How many lines the read loops store in all, and the largest argument of
\* recent_lines.
MaxStored == 7
MaxAsked == 2

\* ------------------------------------------------------------- vocabulary
Apps == {"a1", "a2"}
Tasks == {"t1", "t2"}
Types == {"base", "ets", "beammp", "factorio", "minecraft", "sevendays"}
RconTypes == {"factorio", "minecraft"}
TelnetTypes == {"sevendays"}
TailTypes == Types \ {"base"}
PlayerTypes == {"beammp", "factorio", "minecraft", "sevendays"}
NoApp == "none"
\* A command handler's own coroutine is <<t, "main">>; the children that
\* asyncio.gather makes in end() are <<t, a>>, one per app.
\* The task Players.start creates for app a (Players._listplayers) is
\* <<"poll", a>>.
Poller(a) == <<"poll", a>>
\* The tasks Activities.start creates for app a (Provider_Time._get_time,
\* Provider_Time._getgamestats, Provider_Day._get_time) take their turns
\* on <<"time", a>>.
Timer(a) == <<"time", a>>
Threads ==
    (Tasks \X ({"main"} \cup Apps)) \cup {Poller(a) : a \in Apps}
        \cup {Timer(a) : a \in Apps}
NoThread == <<"none", "none">>
Main(t) == <<t, "main">>

VARIABLES
    current,    \* App_Manager.current: an app name or NoApp
    enabled,    \* App.cfg.enabled, per app
    appType,    \* the class of each loaded app (fixed after load_apps)
    process,    \* App.process: "none" | "alive" | "exited" (poll() is not None)
    running,    \* App._running
    tail,       \* App._tail: "none" | "stopped" | "running" (read loop alive)
    players,    \* Players._players_task is alive
    rcon,       \* RconClient: [obj (_rcon is set), connected, running]
    telnet,     \* TelnetClient: [reader, writer, running, event, lock, woken]
    stack,      \* per thread: the call stack, innermost frame first
    ret,        \* per thread: what the callee that just returned handed back
    active,     \* the thread that is executing, or NoThread
    \* --- one Tailer and its TailSource
    lines,      \* the lines the TailSource produces, in order
    kind,       \* the reader the Tailer uses: "stream" | "text"
    raises,     \* the matchers that raise on every line
    pos,        \* how many lines the read loop has consumed
    rpc,        \* the read loop: "read" | "dispatch" | "dead"
    cur,        \* the line being dispatched
    midx,       \* the matcher the dispatch has come to
    got,        \* per matcher, the lines it was invoked on, in order
    tlog,       \* Tailer._log, as the sequence of its entries by index
    \* --- the inbound side of DC_Relay
    seen_messages_id,  \* DC_Relay.seen_messages_id
    relevant,   \* per message: it passes the filters of on_dc_message
    hasFiles,   \* per message: it carries attachments
    delivered,  \* per message: how often the platform delivered its event
    handler,    \* per listener task: the message it handles, or 0
    fan,        \* per message: how often its fan-out was reached
    \* --- the instance pool of one protocol client class
    variant,    \* the class: "rcon" (RconClient) | "telnet" (TelnetClient)
    instances,  \* cls._instances: per key the instance, 0 where there is none
    clients,    \* the instances made so far, by identity: their attributes
    made,       \* the instance the last constructor call returned, 0 at first
    \* --- the outbound side of DC_Relay (the Relay Queue and its consumer)
    queue,      \* DC_Relay.queue: the messages waiting, oldest first
    added,      \* the messages add() was called with, in call order
    deq,        \* the messages popleft() returned, in order
    qpc,        \* _queue_task: "idle" | "resolve" | "enrich" | "send" | "dead"
    mess,       \* the message _send_dc is handling, or 0
    chan,       \* per message: "cached" | "resolved" | "none" (its channel)
    sendOk,     \* per message: chan.send returns (it raises otherwise)
    enrich,     \* per message: enrich_task is "none" | "pending" | "done"
    fmt,        \* per message: "none", or the state of enrich when formatted
    outcome,    \* per message: "none" | "sent" | "dropped"
    \* --- the fan-out of one inbound chat event (on_dc_message, 522-539)
    subscribed, \* DC_Relay._chat_channels[channel]: a set of apps
    am_receiver,\* per app: its attribute am_receiver is set (is not None)
    hasSpecial, \* the channel is a key of DC_Relay._special_channels
    callbacks,  \* DC_Relay._special_channels[channel], when it is a key
    cbRaises,   \* the callbacks whose handler raises
    fpc,        \* the handler: "idle"|"built"|"apps"|"special"|"done"|"raised"
    todo,       \* the subscribers the running for loop has yet to visit
    invoked,    \* per subscriber: how often its handler was awaited
    inEnrich,   \* enrich_task of the App_Bound: "none" | "pending" | "done"
    readEarly,  \* urls was read or _string rewritten while enrich was pending
    \* --- one Tailer object: its tasks and its LogWindow
    read_task,      \* _read_task: "none" | "alive" | "cancelling" | "done"
    log_clear_task, \* Tailer._log_clear_task, likewise
    tailer_running, \* Tailer._running
    count,      \* the local count of the running _reader_loop
    wlog,       \* Tailer._log: a function from the keys to the lines
    nlines,     \* how many lines were stored so far (line k is the number k)
    recent,     \* what the last recent_lines(asked) returned
    asked,      \* the argument of the last recent_lines call, -1 at first
    loops,      \* per loop ("read", "prune"): the tasks created and not done
    \* --- the matchers of Provider_Time on a Tailer
    morder,     \* Tailer._matchers: the matchers in registration order
    ptime,      \* Provider_Time._time: <<>> (None) or <<day, hour, minute>>
    stats,      \* Provider_Time.stats: a function from keys to values
    \* --- the instance pool of Tailer and the sources of the processes
    t_srcs,     \* per app, the output source of each process launched so far
    t_instances,\* Tailer._instances: the instance pooled under each key
    t_pointer,  \* per instance made so far, the source __init__ bound it to
    t_handed,   \* per app and launch, the instance start() put in _tail (0:
                \* start() raised before it made one)
    \* --- the polling tasks of Activities
    acts        \* per app and task function: the tasks created and not done

tailerVars == <<lines, kind, raises, pos, rpc, cur, midx, got, tlog>>
relayVars == <<seen_messages_id, relevant, hasFiles, delivered, handler, fan>>
poolVars == <<variant, instances, clients, made>>
outVars == <<queue, added, deq, qpc, mess, chan, sendOk, enrich, fmt, outcome>>
fanVars == <<subscribed, am_receiver, hasSpecial, callbacks, cbRaises, fpc,
             todo, invoked, inEnrich, readEarly>>
winVars == <<read_task, log_clear_task, tailer_running, count, wlog, nlines,
             recent, asked, loops>>
moreVars == <<morder, ptime, stats, t_srcs, t_instances, t_pointer, t_handed,
              acts>>
extVars == <<outVars, fanVars, winVars, moreVars>>
ioVars == <<tailerVars, relayVars, poolVars, extVars>>
appVars == <<process, running, tail, players>>
cliVars == <<rcon, telnet>>
regVars == <<current, enabled, appType>>
thrVars == <<stack, ret, active>>
vars == <<current, enabled, appType, process, running, tail, players, rcon,
          telnet, stack, ret, active, tailerVars, relayVars, poolVars,
          extVars>>

\* ---------------------------------------------------------------- frames
Frame(f, p, a) == [fn |-> f, pc |-> p, app |-> a, n |-> 0]
Top(th) == Head(stack[th])
\* Thread th stands at label p of function f and may take its next step.
At(th, f, p) ==
    /\ stack[th] # <<>>
    /\ Top(th).fn = f
    /\ Top(th).pc = p
    /\ active \in {NoThread, th}
SetPc(s, p) == <<[Head(s) EXCEPT !.pc = p]>> \o Tail(s)
SetPcN(s, p, k) == <<[Head(s) EXCEPT !.pc = p, !.n = k]>> \o Tail(s)
\* Go on to label p without suspending.
Goto(th, p) ==
    /\ stack' = [stack EXCEPT ![th] = SetPc(@, p)]
    /\ ret' = [ret EXCEPT ![th] = "none"]
    /\ active' = th
GotoN(th, p, k) ==
    /\ stack' = [stack EXCEPT ![th] = SetPcN(@, p, k)]
    /\ ret' = [ret EXCEPT ![th] = "none"]
    /\ active' = th
\* Suspend at an await; the thread resumes at label p.
Yield(th, p) ==
    /\ stack' = [stack EXCEPT ![th] = SetPc(@, p)]
    /\ ret' = [ret EXCEPT ![th] = "none"]
    /\ active' = NoThread
YieldN(th, p, k) ==
    /\ stack' = [stack EXCEPT ![th] = SetPcN(@, p, k)]
    /\ ret' = [ret EXCEPT ![th] = "none"]
    /\ active' = NoThread
\* await callee(): push its frame; the caller resumes at label p.
Call(th, p, fr) ==
    /\ stack' = [stack EXCEPT ![th] = <<fr>> \o SetPc(@, p)]
    /\ ret' = [ret EXCEPT ![th] = "none"]
    /\ active' = th
\* return v (or raise, v = "raise"): pop the frame.  A thread whose last
\* frame returns is finished and the event loop takes over.
Return(th, v) ==
    /\ stack' = [stack EXCEPT ![th] = Tail(@)]
    /\ ret' = [ret EXCEPT ![th] = IF Len(stack[th]) = 1 THEN "none" ELSE v]
    /\ active' = IF Len(stack[th]) = 1 THEN NoThread ELSE th

\* Some frame of function f for app a is on thread th's stack.
InCall(th, f, a) ==
    \E i \in 1..Len(stack[th]) : stack[th][i].fn = f /\ stack[th][i].app = a

\* App.check_running
check_running(a) == process[a] = "alive"

\* App_Manager.get_current
get_current == current


\* ------------------------------------------------------------------ Init
\* The state after App_Manager.post_init: load_apps keeps only enabled
\* apps, nothing is current, no process was launched, and every protocol
\* client and Tailer is as its constructor left it.
RconInit == [obj |-> FALSE, connected |-> FALSE, running |-> FALSE]
TelnetInit == [reader |-> FALSE, writer |-> FALSE, running |-> FALSE,
               event |-> FALSE, lock |-> NoThread, woken |-> {}]

InitApps ==
    /\ current = NoApp
    /\ enabled = [a \in Apps |-> TRUE]
    /\ appType \in [Apps -> Types]
    /\ process = [a \in Apps |-> "none"]
    /\ running = [a \in Apps |-> FALSE]
    /\ tail = [a \in Apps |-> "none"]
    /\ players = [a \in Apps |-> FALSE]
    /\ rcon = [a \in Apps |-> RconInit]
    /\ telnet = [a \in Apps |-> TelnetInit]
    /\ stack = [th \in Threads |-> <<>>]
    /\ ret = [th \in Threads |-> "none"]
    /\ active = NoThread

\* Tailer.__init__: no matcher was invoked, the log window is empty; no
\* line is waiting in the source.
MatcherOrder == <<"m1", "m2">>
MatcherSet == {"m1", "m2"}
TailerIdle ==
    /\ lines = <<>>
    /\ kind = "text"
    /\ raises = {}
    /\ pos = 0
    /\ rpc = "read"
    /\ cur = <<>>
    /\ midx = 1
    /\ got = [m \in MatcherSet |-> <<>>]
    /\ tlog = <<>>

\* DC_Relay as the class body leaves it: nothing seen, nothing in flight.
MsgIds == {1, 2}
Listeners == {"dcdm", "gddm"}
RelayIdle ==
    /\ seen_messages_id = {}
    /\ relevant = [m \in MsgIds |-> TRUE]
    /\ hasFiles = [m \in MsgIds |-> FALSE]
    /\ delivered = [m \in MsgIds |-> 0]
    /\ handler = [h \in Listeners |-> 0]
    /\ fan = [m \in MsgIds |-> 0]

\* The class body of a protocol client: _instances = {} (the key is
\* id(app_alive), host, port).
Preds == {"p1", "p2"}
Hosts == {"localhost"}
Ports == {"rcon_port", "telnet_port"}
Keys == Preds \X Hosts \X Ports
PoolIdle ==
    /\ variant = "rcon"
    /\ instances = [k \in Keys |-> 0]
    /\ clients = <<>>
    /\ made = 0

\* The outbound messages (DC_Bound objects), numbered in creation order.
OutMsgs == 1..MaxMessages
\* DC_Relay.queue as the class body leaves it, and no consumer step taken.
OutIdle ==
    /\ queue = <<>>
    /\ added = <<>>
    /\ deq = <<>>
    /\ qpc = "idle"
    /\ mess = 0
    /\ chan = [m \in OutMsgs |-> "cached"]
    /\ sendOk = [m \in OutMsgs |-> TRUE]
    /\ enrich = [m \in OutMsgs |-> "none"]
    /\ fmt = [m \in OutMsgs |-> "none"]
    /\ outcome = [m \in OutMsgs |-> "none"]

\* The out-of-band callbacks (label, handler) a channel can have.
Cbs == {"c1", "c2"}
\* No inbound event is being fanned out.  App.am_receiver is None in the
\* class body (src/apps/_app.py:55).
FanIdle ==
    /\ subscribed = {}
    /\ am_receiver = [a \in Apps |-> FALSE]
    /\ hasSpecial = FALSE
    /\ callbacks = {}
    /\ cbRaises = {}
    /\ fpc = "idle"
    /\ todo = {}
    /\ invoked = [x \in Apps \cup Cbs |-> 0]
    /\ inEnrich = "none"
    /\ readEarly = FALSE

\* Tailer.__init__ (lines 73-85): no task, an empty _log, _running False.
WinIdle ==
    /\ read_task = "none"
    /\ log_clear_task = "none"
    /\ tailer_running = FALSE
    /\ count = 0
    /\ wlog = <<>>
    /\ nlines = 0
    /\ recent = <<>>
    /\ asked = -1
    /\ loops = [l \in {"read", "prune"} |-> 0]

\* The task functions of the Activity providers: Provider_Time has
\* task_funcs = [_get_time, _getgamestats] (sevendays, line 295),
\* Provider_Day has [_get_time] (minecraft, line 275).
ActTypes == {"minecraft", "sevendays"}
ActFuncs == {"get_time", "getgamestats"}
task_funcs(type) ==
    IF type = "sevendays" THEN {"get_time", "getgamestats"}
    ELSE IF type = "minecraft" THEN {"get_time"}
    ELSE {}

\* Provider_Time.__init__ (no time, no stats), the class body of Tailer
\* (an empty pool), Activities.__init__ (no task).
MoreIdle ==
    /\ morder = <<>>
    /\ ptime = <<>>
    /\ stats = <<>>
    /\ t_srcs = [a \in Apps |-> <<>>]
    /\ t_instances = <<>>
    /\ t_pointer = <<>>
    /\ t_handed = [a \in Apps |-> <<>>]
    /\ acts = [a \in Apps |-> [f \in ActFuncs |-> 0]]

ExtIdle == OutIdle /\ FanIdle /\ WinIdle /\ MoreIdle

Init == InitApps /\ TailerIdle /\ RelayIdle /\ PoolIdle /\ ExtIdle

\* ----------------------------------------------------- command handlers
\* A task is idle when its handler and the gather children it made are done.
Idle(t) == \A th \in Threads : th[1] = t => stack[th] = <<>>

\* main.after_started / CMD_AppStart.invoke: await manager.launch(app)
CmdLaunch(t, a) ==
    /\ active = NoThread
    /\ Idle(t)
    /\ stack' = [stack EXCEPT ![Main(t)] = <<Frame("launch", "l_begin", a)>>]
    /\ active' = Main(t)
    /\ UNCHANGED <<ioVars, regVars, appVars, cliVars, ret>>

\* CMD_AppEnd.invoke: manager.end(manager.current); on_stopping, restart and
\* CMD_AppStart.invoke: manager.end()
CmdEnd(t, name) ==
    /\ active = NoThread
    /\ Idle(t)
    /\ name \in {NoApp, current}
    /\ stack' = [stack EXCEPT ![Main(t)] = <<Frame("end", "e_begin", name)>>]
    /\ active' = Main(t)
    /\ UNCHANGED <<ioVars, regVars, appVars, cliVars, ret>>

\* CMD_AppToggle.invoke -> App_Manager.toggle (no await: one step)
App_Manager_toggle(a, state) ==
    /\ active = NoThread
    /\ enabled' = [enabled EXCEPT ![a] = state]
    /\ UNCHANGED <<ioVars, current, appType, appVars, cliVars, thrVars>>

\* ------------------------------------------------------------ App_Manager
\* launch, line 121: await self.end()
App_Manager_launch_begin(th) ==
    /\ At(th, "launch", "l_begin")
    /\ Call(th, "l_after_end", Frame("end", "e_begin", NoApp))
    /\ UNCHANGED <<ioVars, regVars, appVars, cliVars>>

\* launch, lines 122-123: a disabled app raises LookupError
App_Manager_launch_disabled(th) ==
    /\ At(th, "launch", "l_after_end")
    /\ ~enabled[Top(th).app]
    /\ Return(th, "raise")
    /\ UNCHANGED <<ioVars, regVars, appVars, cliVars>>

\* launch, line 124: await app.start()
App_Manager_launch_start(th) ==
    /\ At(th, "launch", "l_after_end")
    /\ enabled[Top(th).app]
    /\ Call(th, "l_after_start", Frame("start", "s_begin", Top(th).app))
    /\ UNCHANGED <<ioVars, regVars, appVars, cliVars>>

\* A launch that records the workload as current whether or not start()
\* returned: line 125 inside a `finally`.
App_Manager_launch_finish_always(th) ==
    /\ At(th, "launch", "l_after_start")
    /\ current' = Top(th).app
    /\ Return(th, IF ret[th] = "raise" THEN "raise" ELSE "ok")
    /\ UNCHANGED <<ioVars, enabled, appType, appVars, cliVars>>

\* launch, line 125: self.current = name (skipped when start() raised)
App_Manager_launch_finish(th) ==
    /\ At(th, "launch", "l_after_start")
    /\ IF ret[th] = "raise"
          THEN Return(th, "raise") /\ UNCHANGED current
          ELSE current' = Top(th).app /\ Return(th, "ok")
    /\ UNCHANGED <<ioVars, enabled, appType, appVars, cliVars>>

\* end(name), lines 143-148: stop the named app
App_Manager_end_named(th) ==
    /\ At(th, "end", "e_begin")
    /\ Top(th).app # NoApp
    /\ Call(th, "e_named_done", Frame("timed_stop", "ts_begin", Top(th).app))
    /\ UNCHANGED <<ioVars, regVars, appVars, cliVars>>

\* end(name), lines 149-153: current is left as it is
App_Manager_end_named_done(th) ==
    /\ At(th, "end", "e_named_done")
    /\ Return(th, "ok")
    /\ UNCHANGED <<ioVars, regVars, appVars, cliVars>>

\* end(), lines 155-157: stop the current app
App_Manager_end_current(th) ==
    /\ At(th, "end", "e_begin")
    /\ Top(th).app = NoApp
    /\ get_current # NoApp
    /\ Call(th, "e_cur_done", Frame("timed_stop", "ts_begin", get_current))
    /\ UNCHANGED <<ioVars, regVars, appVars, cliVars>>

\* end(), lines 158-162
App_Manager_end_current_done(th) ==
    /\ At(th, "end", "e_cur_done")
    /\ current' = NoApp
    /\ Return(th, "ok")
    /\ UNCHANGED <<ioVars, enabled, appType, appVars, cliVars>>

\* end(), lines 164-165: no current app: gather timed_stop over every app
App_Manager_end_all(th) ==
    /\ At(th, "end", "e_begin")
    /\ Top(th).app = NoApp
    /\ get_current = NoApp
    /\ stack' = [x \in Threads |->
                   IF x = th THEN SetPc(stack[th], "e_gather")
                   ELSE IF x[1] = th[1] /\ x[2] \in Apps
                        THEN <<Frame("timed_stop", "ts_begin", x[2])>>
                        ELSE stack[x]]
    /\ ret' = [ret EXCEPT ![th] = "none"]
    /\ active' = NoThread
    /\ UNCHANGED <<ioVars, regVars, appVars, cliVars>>

\* end(), lines 167-175: the gather is over
App_Manager_end_all_done(th) ==
    /\ At(th, "end", "e_gather")
    /\ \A a \in Apps : stack[<<th[1], a>>] = <<>>
    /\ current' = NoApp
    /\ Return(th, "ok")
    /\ UNCHANGED <<ioVars, enabled, appType, appVars, cliVars>>

\* end.timed_stop, lines 129-135
timed_stop_skip(th) ==
    /\ At(th, "timed_stop", "ts_begin")
    /\ ~check_running(Top(th).app)
    /\ Return(th, "skipped")
    /\ UNCHANGED <<ioVars, regVars, appVars, cliVars>>

timed_stop_call(th) ==
    /\ At(th, "timed_stop", "ts_begin")
    /\ check_running(Top(th).app)
    /\ Call(th, "ts_after", Frame("stop", "st_begin", Top(th).app))
    /\ UNCHANGED <<ioVars, regVars, appVars, cliVars>>

\* end.timed_stop, lines 136-141: an exception of stop() is caught here
timed_stop_after(th) ==
    /\ At(th, "timed_stop", "ts_after")
    /\ Return(th, IF ret[th] = "raise" THEN "error" ELSE "success")
    /\ UNCHANGED <<ioVars, regVars, appVars, cliVars>>

\* A polling loop that looks at the current workload and leaves it current.
update_current_keeps ==
    /\ active = NoThread
    /\ current' = current
    /\ UNCHANGED <<ioVars, enabled, appType, appVars, cliVars, thrVars>>

\* update_current, lines 34-39: one turn of the polling loop
App_Manager_update_current ==
    /\ active = NoThread
    /\ current' = IF get_current # NoApp /\ ~check_running(get_current)
                     THEN NoApp ELSE current
    /\ UNCHANGED <<ioVars, enabled, appType, appVars, cliVars, thrVars>>

\* ------------------------------------------------------------ environment
\* The workload's process exits on its own.
ProcExit(a) ==
    /\ process[a] = "alive"
    /\ process' = [process EXCEPT ![a] = "exited"]
    /\ UNCHANGED <<ioVars, regVars, running, tail, players, cliVars, thrVars>>


\* ------------------------------------------------------------- App.start
TypeOf(th) == appType[Top(th).app]

\* Factorio.start, lines 125-128: wait while the .lock file exists
Factorio_start_lockwait(th) ==
    /\ At(th, "start", "s_begin")
    /\ TypeOf(th) = "factorio"
    /\ Top(th).n = 0
    /\ YieldN(th, "s_begin", 1)
    /\ UNCHANGED <<ioVars, regVars, appVars, cliVars>>

\* App._std_launch -> App._launch_process, lines 143-155: Popen succeeds.
\* (The frame's n is 0 after a successful spawn, 1 after a failed one.)
App_launch_process_ok(th) ==
    /\ At(th, "start", "s_begin")
    /\ process' = [process EXCEPT ![Top(th).app] = "alive"]
    /\ GotoN(th, "s_wait", 0)
    /\ UNCHANGED <<ioVars, regVars, running, tail, players, cliVars>>

\* App._launch_process, lines 156-157: Popen raises; the exception is
\* logged and swallowed, self.process keeps its old value
App_launch_process_fail(th) ==
    /\ At(th, "start", "s_begin")
    /\ GotoN(th, "s_wait", 1)
    /\ UNCHANGED <<ioVars, regVars, appVars, cliVars>>

\* start: while not self.check_running(): await asyncio.sleep(..)
App_start_wait_alive(th) ==
    /\ At(th, "start", "s_wait")
    /\ ~check_running(Top(th).app)
    /\ Yield(th, "s_wait")
    /\ UNCHANGED <<ioVars, regVars, appVars, cliVars>>

\* Base.start / ETS.start / BeamMP.start: the process is alive, no client
App_start_alive(th) ==
    /\ At(th, "start", "s_wait")
    /\ check_running(Top(th).app)
    /\ TypeOf(th) \notin RconTypes \cup TelnetTypes
    /\ Goto(th, IF TypeOf(th) = "base" THEN "s_flag" ELSE "s_tail")
    /\ UNCHANGED <<ioVars, regVars, appVars, cliVars>>

\* Factorio.start line 135, Minecraft.start line 71: await self._relay.setup()
App_start_rcon_setup(th) ==
    /\ At(th, "start", "s_wait")
    /\ check_running(Top(th).app)
    /\ TypeOf(th) \in RconTypes
    /\ Call(th, "s_setup_done", Frame("rcon_setup", "rs_begin", Top(th).app))
    /\ UNCHANGED <<ioVars, regVars, appVars, cliVars>>

\* SevenDays.start line 120: reader = await self._relay.setup()
App_start_telnet_setup(th) ==
    /\ At(th, "start", "s_wait")
    /\ check_running(Top(th).app)
    /\ TypeOf(th) \in TelnetTypes
    /\ Call(th, "s_setup_done", Frame("telnet_setup", "tl_lock", Top(th).app))
    /\ UNCHANGED <<ioVars, regVars, appVars, cliVars>>

\* setup() raised: start() has no handler, the error goes to its caller
App_start_setup_raised(th) ==
    /\ At(th, "start", "s_setup_done")
    /\ ret[th] = "raise"
    /\ Return(th, "raise")
    /\ UNCHANGED <<ioVars, regVars, appVars, cliVars>>

\* setup() returned.  SevenDays.start lines 122-126 then sleeps while
\* self.process is None (at most 25 times).
App_start_setup_done(th) ==
    /\ At(th, "start", "s_setup_done")
    /\ ret[th] # "raise"
    /\ IF TypeOf(th) \in TelnetTypes /\ process[Top(th).app] = "none"
          THEN Yield(th, "s_tail")
          ELSE Goto(th, "s_tail")
    /\ UNCHANGED <<ioVars, regVars, appVars, cliVars>>

\* The source the Tailer would read: ETS reads the server log, SevenDays the
\* Telnet reader, the others process.stdout (server_log_file is None by
\* default, so with no process there is nothing to tail).
HasTailSource(a) ==
    appType[a] \in {"ets", "sevendays"} \/ process[a] # "none"

\* self._tail = Tailer(..) ; await self._tail.start(matchers).  Tailer.__new__
\* pools by the pointer's key: the call yields the pooled instance, in
\* whatever state it is, or a fresh (stopped) one.
App_start_tailer(th) ==
    /\ At(th, "start", "s_tail")
    /\ HasTailSource(Top(th).app)
    /\ \E t \in {"stopped"} \cup ({tail[Top(th).app]} \ {"none"}) :
          tail' = [tail EXCEPT ![Top(th).app] = t]
    /\ Call(th, "s_flag", Frame("tailer_start", "ta_wait", Top(th).app))
    /\ UNCHANGED <<ioVars, regVars, process, running, players, cliVars>>

\* raise SystemError("No Log to be passed to Tailer")
App_start_no_log(th) ==
    /\ At(th, "start", "s_tail")
    /\ ~HasTailSource(Top(th).app)
    /\ Return(th, "raise")
    /\ UNCHANGED <<ioVars, regVars, appVars, cliVars>>

\* The liveness predicate handed to the Tailer: App.check_running, or for
\* SevenDays the Telnet client's connected_event.
TailerAlive(a) ==
    IF appType[a] \in TelnetTypes THEN telnet[a].event ELSE check_running(a)

\* Tailer.start, lines 92-113: wait for the liveness predicate
Tailer_start_wait(th) ==
    /\ At(th, "tailer_start", "ta_wait")
    /\ ~TailerAlive(Top(th).app)
    /\ Yield(th, IF TypeOf(th) \in TelnetTypes THEN "ta_evwait" ELSE "ta_wait")
    /\ UNCHANGED <<ioVars, regVars, appVars, cliVars>>

\* Tailer.start, lines 115-119: create the read and prune tasks
Tailer_start_run(th) ==
    /\ At(th, "tailer_start", "ta_wait")
    /\ TailerAlive(Top(th).app)
    /\ tail' = [tail EXCEPT ![Top(th).app] = "running"]
    /\ Return(th, "ok")
    /\ UNCHANGED <<ioVars, regVars, process, running, players, cliVars>>

\* Tailer.start, line 96: Event.wait() returns once set() was called
Tailer_start_woken(th) ==
    /\ At(th, "tailer_start", "ta_evwait")
    /\ th \in telnet[Top(th).app].woken
    /\ telnet' = [telnet EXCEPT ![Top(th).app].woken = @ \ {th}]
    /\ tail' = [tail EXCEPT ![Top(th).app] = "running"]
    /\ Return(th, "ok")
    /\ UNCHANGED <<ioVars, regVars, process, running, players, rcon>>

\* The end of every start(): Players.start(), then self._running = True
App_start_finish(th) ==
    /\ At(th, "start", "s_flag")
    /\ players' = [players EXCEPT ![Top(th).app] =
                       @ \/ TypeOf(th) \in PlayerTypes]
    /\ running' = [running EXCEPT ![Top(th).app] = TRUE]
    /\ Return(th, "ok")
    /\ UNCHANGED <<ioVars, regVars, process, tail, cliVars>>

\* -------------------------------------------------------------- App.stop
\* Tailer.stop: cancel the read and prune tasks (no await inside)
Tailer_stop(t) == IF t = "none" THEN "none" ELSE "stopped"

TerminateFrame(a) == Frame("terminate", "tm_begin", a)

\* Players.stop(): cancel the task and await it (a suspension when there
\* is a task).
\* The cancelled task ends where it was suspended before Players.stop
\* returns.
PlayersStop(th, p) ==
    /\ players' = [players EXCEPT ![Top(th).app] = FALSE]
    /\ stack' = [stack EXCEPT ![th] = SetPc(@, p),
                              ![Poller(Top(th).app)] = <<>>]
    /\ ret' = [ret EXCEPT ![th] = "none", ![Poller(Top(th).app)] = "none"]
    /\ active' = IF players[Top(th).app] THEN NoThread ELSE th

\* Base.stop, lines 63-67
Base_stop(th) ==
    /\ At(th, "stop", "st_begin")
    /\ TypeOf(th) = "base"
    /\ running' = [running EXCEPT ![Top(th).app] = FALSE]
    /\ Call(th, "st_done", TerminateFrame(Top(th).app))
    /\ UNCHANGED <<ioVars, regVars, process, tail, players, cliVars>>

\* ETS.stop, lines 111-120 (pkill -f signals the process; its exit is ProcExit)
ETS_stop(th) ==
    /\ At(th, "stop", "st_begin")
    /\ TypeOf(th) = "ets"
    /\ running' = [running EXCEPT ![Top(th).app] = FALSE]
    /\ tail' = [tail EXCEPT ![Top(th).app] = Tailer_stop(@)]
    /\ Call(th, "st_done", TerminateFrame(Top(th).app))
    /\ UNCHANGED <<ioVars, regVars, process, players, cliVars>>

\* BeamMP.stop, lines 170-174
BeamMP_stop(th) ==
    /\ At(th, "stop", "st_begin")
    /\ TypeOf(th) = "beammp"
    /\ running' = [running EXCEPT ![Top(th).app] = FALSE]
    /\ PlayersStop(th, "st_detach")
    /\ UNCHANGED <<ioVars, regVars, process, tail, cliVars>>

\* BeamMP.stop, lines 176-178: "exit" is written to the pipe of a process
\* that has exited: BrokenPipeError
BeamMP_stop_stdin_fails(th) ==
    /\ At(th, "stop", "st_detach")
    /\ process[Top(th).app] = "exited"
    /\ Return(th, "raise")
    /\ UNCHANGED <<ioVars, regVars, appVars, cliVars>>

\* BeamMP.stop, lines 176-182: "exit" on stdin, Tailer.stop, _terminate
BeamMP_stop_detach(th) ==
    /\ At(th, "stop", "st_detach")
    /\ tail' = [tail EXCEPT ![Top(th).app] = Tailer_stop(@)]
    /\ Call(th, "st_done", TerminateFrame(Top(th).app))
    /\ UNCHANGED <<ioVars, regVars, process, running, players, cliVars>>

\* Factorio.stop, lines 155-158: ok = await self._relay.send("/server-save")
Factorio_stop(th) ==
    /\ At(th, "stop", "st_begin")
    /\ TypeOf(th) = "factorio"
    /\ running' = [running EXCEPT ![Top(th).app] = FALSE]
    /\ Call(th, "st_f_sent", Frame("rcon_send", "rq_begin", Top(th).app))
    /\ UNCHANGED <<ioVars, regVars, process, tail, players, cliVars>>

\* Factorio.stop: send() raised, stop() has no handler
Factorio_stop_send_raised(th) ==
    /\ At(th, "stop", "st_f_sent")
    /\ ret[th] = "raise"
    /\ Return(th, "raise")
    /\ UNCHANGED <<ioVars, regVars, appVars, cliVars>>

\* Factorio.stop, lines 159-163: the stdin fallback (send() gave nothing
\* truthy) writes to the pipe of a process that has exited: BrokenPipeError
Factorio_stop_stdin_fails(th) ==
    /\ At(th, "stop", "st_f_sent")
    /\ ret[th] # "raise"
    /\ process[Top(th).app] = "exited"
    /\ Return(th, "raise")
    /\ UNCHANGED <<ioVars, regVars, appVars, cliVars>>

\* Factorio.stop, lines 159-164: stdin fallback, Players.stop
Factorio_stop_players(th) ==
    /\ At(th, "stop", "st_f_sent")
    /\ ret[th] # "raise"
    /\ PlayersStop(th, "st_f_detach")
    /\ UNCHANGED <<ioVars, regVars, process, running, tail, cliVars>>

\* Factorio.stop, lines 165-167: Tailer.stop, then await self._relay.teardown()
Factorio_stop_detach(th) ==
    /\ At(th, "stop", "st_f_detach")
    /\ tail' = [tail EXCEPT ![Top(th).app] = Tailer_stop(@)]
    /\ Call(th, "st_f_torn", Frame("rcon_teardown", "rt_begin", Top(th).app))
    /\ UNCHANGED <<ioVars, regVars, process, running, players, cliVars>>

\* Factorio.stop, line 168: await self._terminate()
Factorio_stop_terminate(th) ==
    /\ At(th, "stop", "st_f_torn")
    /\ Call(th, "st_f_term", TerminateFrame(Top(th).app))
    /\ UNCHANGED <<ioVars, regVars, appVars, cliVars>>

\* Factorio.stop, lines 169-171: sleep(0.5), remove the lock file
Factorio_stop_sleep(th) ==
    /\ At(th, "stop", "st_f_term")
    /\ IF ret[th] = "raise" THEN Return(th, "raise") ELSE Yield(th, "st_done")
    /\ UNCHANGED <<ioVars, regVars, appVars, cliVars>>

\* Minecraft.stop, lines 88-92: Players.stop, Activities.stop
Minecraft_stop(th) ==
    /\ At(th, "stop", "st_begin")
    /\ TypeOf(th) = "minecraft"
    /\ running' = [running EXCEPT ![Top(th).app] = FALSE]
    /\ PlayersStop(th, "st_m_send1")
    /\ UNCHANGED <<ioVars, regVars, process, tail, cliVars>>

\* Minecraft.stop, line 93: await self._relay.send("save-all")
Minecraft_stop_save(th) ==
    /\ At(th, "stop", "st_m_send1")
    /\ Call(th, "st_m_sent1", Frame("rcon_send", "rq_begin", Top(th).app))
    /\ UNCHANGED <<ioVars, regVars, appVars, cliVars>>

\* Minecraft.stop, line 94: sleep(0.2) (or the error of send goes up)
Minecraft_stop_saved(th) ==
    /\ At(th, "stop", "st_m_sent1")
    /\ IF ret[th] = "raise" THEN Return(th, "raise") ELSE Yield(th, "st_m_send2")
    /\ UNCHANGED <<ioVars, regVars, appVars, cliVars>>

\* Minecraft.stop, line 95: await self._relay.send("stop")
Minecraft_stop_shutdown(th) ==
    /\ At(th, "stop", "st_m_send2")
    /\ Call(th, "st_m_sent2", Frame("rcon_send", "rq_begin", Top(th).app))
    /\ UNCHANGED <<ioVars, regVars, appVars, cliVars>>

Minecraft_stop_shutdown_sent(th) ==
    /\ At(th, "stop", "st_m_sent2")
    /\ IF ret[th] = "raise" THEN Return(th, "raise") ELSE GotoN(th, "st_m_poll", 0)
    /\ UNCHANGED <<ioVars, regVars, appVars, cliVars>>

\* Minecraft.stop, lines 96-102: the process is gone or has exited: return
\* False, with the Tailer and the RCON client left as they are
Minecraft_stop_graceful(th) ==
    /\ At(th, "stop", "st_m_poll")
    /\ Top(th).n < StopPolls
    /\ process[Top(th).app] # "alive"
    /\ process' = [process EXCEPT ![Top(th).app] = "none"]
    /\ Return(th, "false")
    /\ UNCHANGED <<ioVars, regVars, running, tail, players, cliVars>>

\* Minecraft.stop, line 103: await asyncio.sleep(0.25)
Minecraft_stop_poll(th) ==
    /\ At(th, "stop", "st_m_poll")
    /\ Top(th).n < StopPolls
    /\ process[Top(th).app] = "alive"
    /\ YieldN(th, "st_m_poll", Top(th).n + 1)
    /\ UNCHANGED <<ioVars, regVars, appVars, cliVars>>

\* Minecraft.stop, lines 104-106: the loop is over: await self._terminate()
Minecraft_stop_force(th) ==
    /\ At(th, "stop", "st_m_poll")
    /\ Top(th).n >= StopPolls
    /\ Call(th, "st_done", TerminateFrame(Top(th).app))
    /\ UNCHANGED <<ioVars, regVars, appVars, cliVars>>

\* SevenDays.stop, lines 135-138: await self._relay.send("saveworld")
SevenDays_stop(th) ==
    /\ At(th, "stop", "st_begin")
    /\ TypeOf(th) = "sevendays"
    /\ running' = [running EXCEPT ![Top(th).app] = FALSE]
    /\ Call(th, "st_7_sent1", Frame("telnet_send", "tq_begin", Top(th).app))
    /\ UNCHANGED <<ioVars, regVars, process, tail, players, cliVars>>

\* SevenDays.stop, line 139: sleep(0.1)
SevenDays_stop_saved(th) ==
    /\ At(th, "stop", "st_7_sent1")
    /\ IF ret[th] = "raise" THEN Return(th, "raise") ELSE Yield(th, "st_7_send2")
    /\ UNCHANGED <<ioVars, regVars, appVars, cliVars>>

\* SevenDays.stop, line 140: await self._relay.send("shutdown")
SevenDays_stop_shutdown(th) ==
    /\ At(th, "stop", "st_7_send2")
    /\ Call(th, "st_7_sent2", Frame("telnet_send", "tq_begin", Top(th).app))
    /\ UNCHANGED <<ioVars, regVars, appVars, cliVars>>

SevenDays_stop_send_raised(th) ==
    /\ At(th, "stop", "st_7_sent2")
    /\ ret[th] = "raise"
    /\ Return(th, "raise")
    /\ UNCHANGED <<ioVars, regVars, appVars, cliVars>>

\* SevenDays.stop, lines 141-142: Players.stop, Activities.stop (the
\* cancelled task leaves `async with self._setup_lock` if it was inside)
SevenDays_stop_players(th) ==
    /\ At(th, "stop", "st_7_sent2")
    /\ ret[th] # "raise"
    /\ PlayersStop(th, "st_7_detach")
    /\ telnet' = [telnet EXCEPT ![Top(th).app].lock =
                      IF @ = Poller(Top(th).app) THEN NoThread ELSE @]
    /\ UNCHANGED <<ioVars, regVars, process, running, tail, rcon>>

\* SevenDays.stop, lines 143-146: Tailer.stop, await self._relay.teardown()
SevenDays_stop_detach(th) ==
    /\ At(th, "stop", "st_7_detach")
    /\ tail' = [tail EXCEPT ![Top(th).app] = Tailer_stop(@)]
    /\ Call(th, "st_7_torn", Frame("telnet_teardown", "tt_begin", Top(th).app))
    /\ UNCHANGED <<ioVars, regVars, process, running, players, cliVars>>

\* SevenDays.stop, line 147: await self._terminate()
SevenDays_stop_terminate(th) ==
    /\ At(th, "stop", "st_7_torn")
    /\ Call(th, "st_done", TerminateFrame(Top(th).app))
    /\ UNCHANGED <<ioVars, regVars, appVars, cliVars>>

\* return True (an error of _terminate goes up)
App_stop_done(th) ==
    /\ At(th, "stop", "st_done")
    /\ Return(th, IF ret[th] = "raise" THEN "raise" ELSE "ok")
    /\ UNCHANGED <<ioVars, regVars, appVars, cliVars>>

\* --------------------------------------------------------- App._terminate
\* lines 170-173: no stored process: return (line 172) or go to the scan
App_terminate_skip(th) ==
    /\ At(th, "terminate", "tm_begin")
    /\ process[Top(th).app] = "none"
    /\ Goto(th, "tm_scan")
    /\ UNCHANGED <<ioVars, regVars, appVars, cliVars>>

\* lines 176-180: terminate(); wait(timeout=5) sees the process exit; then
\* await self._stderr_task
App_terminate_graceful(th) ==
    /\ At(th, "terminate", "tm_begin")
    /\ process[Top(th).app] = "alive"
    /\ process' = [process EXCEPT ![Top(th).app] = "exited"]
    /\ YieldN(th, "tm_poll", 0)
    /\ UNCHANGED <<ioVars, regVars, running, tail, players, cliVars>>

\* lines 176-182: the process ignores the signal, wait() raises
\* TimeoutExpired, which is caught and logged
App_terminate_ignored(th) ==
    /\ At(th, "terminate", "tm_begin")
    /\ process[Top(th).app] = "alive"
    /\ GotoN(th, "tm_poll", 0)
    /\ UNCHANGED <<ioVars, regVars, appVars, cliVars>>

\* lines 176-180: the process had exited already; the stderr task is
\* awaited (done or not)
App_terminate_exited(th) ==
    /\ At(th, "terminate", "tm_begin")
    /\ process[Top(th).app] = "exited"
    /\ \/ YieldN(th, "tm_poll", 0)
       \/ GotoN(th, "tm_poll", 0)
    /\ UNCHANGED <<ioVars, regVars, appVars, cliVars>>

\* line 185: self.process.poll() with self.process cleared meanwhile by
\* another coroutine: AttributeError, outside the try
App_terminate_poll_gone(th) ==
    /\ At(th, "terminate", "tm_poll")
    /\ process[Top(th).app] = "none"
    /\ Top(th).n < TermPolls
    /\ Return(th, "raise")
    /\ UNCHANGED <<ioVars, regVars, appVars, cliVars>>

\* lines 185-186 and 195: the process has exited: break; self.process = None
App_terminate_poll_exited(th) ==
    /\ At(th, "terminate", "tm_poll")
    /\ process[Top(th).app] = "exited"
    /\ Top(th).n < TermPolls
    /\ process' = [process EXCEPT ![Top(th).app] = "none"]
    /\ Goto(th, "tm_scan")
    /\ UNCHANGED <<ioVars, regVars, running, tail, players, cliVars>>

\* line 187: await asyncio.sleep(0.3)
App_terminate_poll_sleep(th) ==
    /\ At(th, "terminate", "tm_poll")
    /\ process[Top(th).app] = "alive"
    /\ Top(th).n < TermPolls
    /\ YieldN(th, "tm_poll", Top(th).n + 1)
    /\ UNCHANGED <<ioVars, regVars, appVars, cliVars>>

\* lines 188-195: the loop ran out: kill(); wait() (any error is caught);
\* self.process = None
App_terminate_kill(th) ==
    /\ At(th, "terminate", "tm_poll")
    /\ Top(th).n >= TermPolls
    /\ process' = [process EXCEPT ![Top(th).app] = "none"]
    /\ Goto(th, "tm_scan")
    /\ UNCHANGED <<ioVars, regVars, running, tail, players, cliVars>>

\* lines 197-223: the scan for stray processes; it sleeps 0.5 s after each
\* stray it stops.  Base has no proc_name and returns before the scan.
App_terminate_scan(th) ==
    /\ At(th, "terminate", "tm_scan")
    /\ \/ Return(th, "ok")
       \/ TypeOf(th) # "base" /\ Yield(th, "tm_scanned")
    /\ UNCHANGED <<ioVars, regVars, appVars, cliVars>>

App_terminate_scanned(th) ==
    /\ At(th, "terminate", "tm_scanned")
    /\ Return(th, "ok")
    /\ UNCHANGED <<ioVars, regVars, appVars, cliVars>>


\* ------------------------------------------------------------ RconClient
\* setup, lines 59-66: self._running = True; the first sleep(3)
RconClient_setup(th) ==
    /\ At(th, "rcon_setup", "rs_begin")
    /\ rcon' = [rcon EXCEPT ![Top(th).app].running = TRUE]
    /\ YieldN(th, "rs_try", 0)
    /\ UNCHANGED <<ioVars, regVars, appVars, telnet>>

\* setup, lines 68-69: a new AsyncRCONClient is stored, then await connect()
RconClient_setup_try(th) ==
    /\ At(th, "rcon_setup", "rs_try")
    /\ rcon' = [rcon EXCEPT ![Top(th).app].obj = TRUE]
    /\ Yield(th, "rs_conn")
    /\ UNCHANGED <<ioVars, regVars, appVars, telnet>>

\* setup, lines 70-71 and 82-83: connected (the server must be there)
RconClient_setup_connected(th) ==
    /\ At(th, "rcon_setup", "rs_conn")
    /\ check_running(Top(th).app)
    /\ rcon' = [rcon EXCEPT ![Top(th).app].connected = TRUE]
    /\ Return(th, "ok")
    /\ UNCHANGED <<ioVars, regVars, appVars, telnet>>

\* setup, lines 72-80: RCONConnectError, attempts += 1, sleep and try again
RconClient_setup_refused(th) ==
    /\ At(th, "rcon_setup", "rs_conn")
    /\ Top(th).n + 1 < MaxAttempts
    /\ YieldN(th, "rs_try", Top(th).n + 1)
    /\ UNCHANGED <<ioVars, regVars, appVars, cliVars>>

\* setup, lines 72-85: the last attempt was refused: RuntimeError, unless
\* self._connected was set meanwhile
RconClient_setup_exhausted(th) ==
    /\ At(th, "rcon_setup", "rs_conn")
    /\ Top(th).n + 1 >= MaxAttempts
    /\ Return(th, IF rcon[Top(th).app].connected THEN "ok" ELSE "raise")
    /\ UNCHANGED <<ioVars, regVars, appVars, cliVars>>

\* setup, lines 76-78: any other exception: return None
RconClient_setup_error(th) ==
    /\ At(th, "rcon_setup", "rs_conn")
    /\ Return(th, "none")
    /\ UNCHANGED <<ioVars, regVars, appVars, cliVars>>

\* teardown, lines 89-90: await self._rcon.close()
RconClient_teardown_close(th) ==
    /\ At(th, "rcon_teardown", "rt_begin")
    /\ rcon[Top(th).app].obj
    /\ Yield(th, "rt_closed")
    /\ UNCHANGED <<ioVars, regVars, appVars, cliVars>>

\* teardown, lines 91-93 (also the whole of it when self._rcon is None)
RconClient_teardown(th) ==
    /\ \/ At(th, "rcon_teardown", "rt_closed")
       \/ At(th, "rcon_teardown", "rt_begin") /\ ~rcon[Top(th).app].obj
    /\ rcon' = [rcon EXCEPT ![Top(th).app] = RconInit]
    /\ Return(th, "ok")
    /\ UNCHANGED <<ioVars, regVars, appVars, telnet>>

\* send, lines 106-107: the app is not alive: return None
RconClient_send_dead(th) ==
    /\ At(th, "rcon_send", "rq_begin")
    /\ ~check_running(Top(th).app)
    /\ Return(th, "none")
    /\ UNCHANGED <<ioVars, regVars, appVars, cliVars>>

\* send, lines 108-110: not connected: await self.setup()
RconClient_send_setup(th) ==
    /\ At(th, "rcon_send", "rq_begin")
    /\ check_running(Top(th).app)
    /\ ~rcon[Top(th).app].obj \/ ~rcon[Top(th).app].connected
    /\ Call(th, "rq_setup_done", Frame("rcon_setup", "rs_begin", Top(th).app))
    /\ UNCHANGED <<ioVars, regVars, appVars, cliVars>>

\* send, lines 110-112: setup() raised (no handler here), or left no client
RconClient_send_setup_failed(th) ==
    /\ At(th, "rcon_send", "rq_setup_done")
    /\ ret[th] = "raise" \/ ~rcon[Top(th).app].obj
    /\ Return(th, IF ret[th] = "raise" THEN "raise" ELSE "none")
    /\ UNCHANGED <<ioVars, regVars, appVars, cliVars>>

\* send, lines 116-121: await self._rcon.send_command(..)
RconClient_send_command(th) ==
    /\ \/ /\ At(th, "rcon_send", "rq_begin")
          /\ check_running(Top(th).app)
          /\ rcon[Top(th).app].obj /\ rcon[Top(th).app].connected
       \/ /\ At(th, "rcon_send", "rq_setup_done")
          /\ ret[th] # "raise" /\ rcon[Top(th).app].obj
    /\ Yield(th, "rq_res")
    /\ UNCHANGED <<ioVars, regVars, appVars, cliVars>>

\* send, line 119: the server answered
RconClient_send_ok(th) ==
    /\ At(th, "rcon_send", "rq_res")
    /\ check_running(Top(th).app)
    /\ rcon[Top(th).app].connected
    /\ Return(th, "ok")
    /\ UNCHANGED <<ioVars, regVars, appVars, cliVars>>

\* send, lines 123-133: the command failed: await self.teardown()
RconClient_send_failed(th) ==
    /\ At(th, "rcon_send", "rq_res")
    /\ Call(th, "rq_torn", Frame("rcon_teardown", "rt_begin", Top(th).app))
    /\ UNCHANGED <<ioVars, regVars, appVars, cliVars>>

\* send, lines 126, 130, 134: await self.setup()
RconClient_send_resetup(th) ==
    /\ At(th, "rcon_send", "rq_torn")
    /\ Call(th, "rq_resetup", Frame("rcon_setup", "rs_begin", Top(th).app))
    /\ UNCHANGED <<ioVars, regVars, appVars, cliVars>>

\* send: after the second setup() the call returns None (or its error)
RconClient_send_resetup_done(th) ==
    /\ At(th, "rcon_send", "rq_resetup")
    /\ Return(th, IF ret[th] = "raise" THEN "raise" ELSE "none")
    /\ UNCHANGED <<ioVars, regVars, appVars, cliVars>>

\* ---------------------------------------------------------- TelnetClient
is_connected(a) == telnet[a].reader /\ telnet[a].writer /\ telnet[a].running

\* The threads waiting in connected_event.wait()
EventWaiters(a) ==
    {x \in Threads : /\ stack[x] # <<>>
                     /\ Head(stack[x]).fn = "tailer_start"
                     /\ Head(stack[x]).pc = "ta_evwait"
                     /\ Head(stack[x]).app = a}

\* setup, line 51: the lock is taken by another coroutine: wait for it
TelnetClient_setup_blocked(th) ==
    /\ At(th, "telnet_setup", "tl_lock")
    /\ active = th
    /\ telnet[Top(th).app].lock # NoThread
    /\ Yield(th, "tl_lock")
    /\ UNCHANGED <<ioVars, regVars, appVars, cliVars>>

\* setup, lines 51-54: take the lock, set connected_event, and return the
\* reader if there is one (the lock is released on the way out)
TelnetClient_setup(th) ==
    /\ At(th, "telnet_setup", "tl_lock")
    /\ telnet[Top(th).app].lock = NoThread
    /\ telnet' = [telnet EXCEPT
                    ![Top(th).app].event = TRUE,
                    ![Top(th).app].woken = @ \cup EventWaiters(Top(th).app),
                    ![Top(th).app].lock =
                        IF telnet[Top(th).app].reader THEN NoThread ELSE th]
    /\ IF telnet[Top(th).app].reader
          THEN Return(th, "ok")
          ELSE GotoN(th, "tl_loop", 0)
    /\ UNCHANGED <<ioVars, regVars, appVars, rcon>>

\* setup, lines 60-63: the app is not alive: sleep(1) and look again
\* (attempts is not advanced)
TelnetClient_setup_wait(th) ==
    /\ At(th, "telnet_setup", "tl_loop")
    /\ Top(th).n < MaxAttempts
    /\ ~check_running(Top(th).app)
    /\ Yield(th, "tl_loop")
    /\ UNCHANGED <<ioVars, regVars, appVars, cliVars>>

\* setup, lines 65-68: await open_connection(..)
TelnetClient_setup_open(th) ==
    /\ At(th, "telnet_setup", "tl_loop")
    /\ Top(th).n < MaxAttempts
    /\ check_running(Top(th).app)
    /\ Yield(th, "tl_conn")
    /\ UNCHANGED <<ioVars, regVars, appVars, cliVars>>

\* setup, lines 66-71: connected
TelnetClient_setup_connected(th) ==
    /\ At(th, "telnet_setup", "tl_conn")
    /\ check_running(Top(th).app)
    /\ telnet' = [telnet EXCEPT ![Top(th).app].reader = TRUE,
                                ![Top(th).app].writer = TRUE,
                                ![Top(th).app].running = TRUE,
                                ![Top(th).app].lock = NoThread]
    /\ Return(th, "ok")
    /\ UNCHANGED <<ioVars, regVars, appVars, rcon>>

\* setup, lines 72-79: refused: attempts += 1; sleep(1)
TelnetClient_setup_refused(th) ==
    /\ At(th, "telnet_setup", "tl_conn")
    /\ YieldN(th, "tl_loop", Top(th).n + 1)
    /\ UNCHANGED <<ioVars, regVars, appVars, cliVars>>

\* setup, lines 74-76 and 81: another error (or the attempts ran out):
\* RuntimeError; the lock is released
TelnetClient_setup_failed(th) ==
    /\ \/ At(th, "telnet_setup", "tl_conn")
       \/ At(th, "telnet_setup", "tl_loop") /\ Top(th).n >= MaxAttempts
    /\ telnet' = [telnet EXCEPT ![Top(th).app].lock = NoThread]
    /\ Return(th, "raise")
    /\ UNCHANGED <<ioVars, regVars, appVars, rcon>>

\* teardown, lines 85-87: clear the event; nothing more if not running
TelnetClient_teardown_idle(th) ==
    /\ At(th, "telnet_teardown", "tt_begin")
    /\ ~telnet[Top(th).app].running
    /\ telnet' = [telnet EXCEPT ![Top(th).app].event = FALSE]
    /\ Return(th, "ok")
    /\ UNCHANGED <<ioVars, regVars, appVars, rcon>>

\* teardown, lines 88-90: close the writer and await wait_closed()
TelnetClient_teardown_close(th) ==
    /\ At(th, "telnet_teardown", "tt_begin")
    /\ telnet[Top(th).app].running
    /\ telnet[Top(th).app].writer
    /\ telnet' = [telnet EXCEPT ![Top(th).app].event = FALSE]
    /\ Yield(th, "tt_closed")
    /\ UNCHANGED <<ioVars, regVars, appVars, rcon>>

\* teardown, lines 91-93
TelnetClient_teardown(th) ==
    /\ \/ At(th, "telnet_teardown", "tt_closed")
       \/ /\ At(th, "telnet_teardown", "tt_begin")
          /\ telnet[Top(th).app].running
          /\ ~telnet[Top(th).app].writer
    /\ telnet' = [telnet EXCEPT
                    ![Top(th).app].event =
                        IF Top(th).pc = "tt_begin" THEN FALSE ELSE @,
                    ![Top(th).app].writer = FALSE,
                    ![Top(th).app].reader = FALSE,
                    ![Top(th).app].running = FALSE]
    /\ Return(th, "ok")
    /\ UNCHANGED <<ioVars, regVars, appVars, rcon>>

\* send, lines 97-100: not connected and the app is not alive: return None
TelnetClient_send_dead(th) ==
    /\ At(th, "telnet_send", "tq_begin")
    /\ ~is_connected(Top(th).app)
    /\ ~check_running(Top(th).app)
    /\ Return(th, "none")
    /\ UNCHANGED <<ioVars, regVars, appVars, cliVars>>

\* A send() that gives up when it is not connected, with no setup() call.
TelnetClient_send_gives_up(th) ==
    /\ At(th, "telnet_send", "tq_begin")
    /\ ~is_connected(Top(th).app)
    /\ check_running(Top(th).app)
    /\ Return(th, "false")
    /\ UNCHANGED <<ioVars, regVars, appVars, cliVars>>

\* send, line 101: await self.setup()
TelnetClient_send_setup(th) ==
    /\ At(th, "telnet_send", "tq_begin")
    /\ ~is_connected(Top(th).app)
    /\ check_running(Top(th).app)
    /\ Call(th, "tq_setup_done", Frame("telnet_setup", "tl_lock", Top(th).app))
    /\ UNCHANGED <<ioVars, regVars, appVars, cliVars>>

\* send, lines 101-103: setup() raised (no handler here) or did not connect
TelnetClient_send_setup_failed(th) ==
    /\ At(th, "telnet_send", "tq_setup_done")
    /\ ret[th] = "raise" \/ ~is_connected(Top(th).app)
    /\ Return(th, IF ret[th] = "raise" THEN "raise" ELSE "false")
    /\ UNCHANGED <<ioVars, regVars, appVars, cliVars>>

\* The send stands before its try block, connected.
TelnetSendReady(th) ==
    \/ At(th, "telnet_send", "tq_begin") /\ is_connected(Top(th).app)
    \/ /\ At(th, "telnet_send", "tq_setup_done")
       /\ ret[th] # "raise" /\ is_connected(Top(th).app)

\* send, lines 108-119: written and drained
TelnetClient_send_ok(th) ==
    /\ TelnetSendReady(th)
    /\ check_running(Top(th).app)
    /\ Return(th, "ok")
    /\ UNCHANGED <<ioVars, regVars, appVars, cliVars>>

\* send, lines 120-122: the write failed: await self.teardown()
TelnetClient_send_failed(th) ==
    /\ TelnetSendReady(th)
    /\ Call(th, "tq_failed", Frame("telnet_teardown", "tt_begin", Top(th).app))
    /\ UNCHANGED <<ioVars, regVars, appVars, cliVars>>

\* send, line 123: return False
TelnetClient_send_failed_done(th) ==
    /\ At(th, "telnet_send", "tq_failed")
    /\ Return(th, "false")
    /\ UNCHANGED <<ioVars, regVars, appVars, cliVars>>

\* ---------------------------------------------------- Players._listplayers
\* One turn of the loop `while self._running`, after its sleep:
\* await self.app._relay.send(..)
Players_listplayers(a) ==
    /\ active = NoThread
    /\ players[a]
    /\ appType[a] \in RconTypes \cup TelnetTypes
    /\ stack[Poller(a)] = <<>>
    /\ stack' = [stack EXCEPT ![Poller(a)] =
           << IF appType[a] \in RconTypes
                 THEN Frame("rcon_send", "rq_begin", a)
                 ELSE Frame("telnet_send", "tq_begin", a),
              Frame("listplayers", "lp_sent", a) >>]
    /\ active' = Poller(a)
    /\ UNCHANGED <<ioVars, regVars, appVars, cliVars, ret>>

\* send() returned: the loop goes to its next turn
Players_listplayers_sent(th) ==
    /\ At(th, "listplayers", "lp_sent")
    /\ ret[th] # "raise"
    /\ Return(th, "ok")
    /\ UNCHANGED <<ioVars, regVars, appVars, cliVars>>

\* send() raised: the loop has no handler, the task is over
Players_listplayers_raised(th) ==
    /\ At(th, "listplayers", "lp_sent")
    /\ ret[th] = "raise"
    /\ players' = [players EXCEPT ![Top(th).app] = FALSE]
    /\ Return(th, "raise")
    /\ UNCHANGED <<ioVars, regVars, process, running, tail, cliVars>>

\* ------------------------------------------------------------------ Next
\* The steps of App_Manager.launch and App_Manager.end
ManagerStep(th) ==
    \/ App_Manager_launch_begin(th)
    \/ App_Manager_launch_start(th)
    \/ App_Manager_launch_finish(th)
    \/ App_Manager_end_named(th)
    \/ App_Manager_end_named_done(th)
    \/ App_Manager_end_current(th)
    \/ App_Manager_end_current_done(th)
    \/ App_Manager_end_all(th)
    \/ App_Manager_end_all_done(th)
    \/ timed_stop_skip(th)
    \/ timed_stop_call(th)
    \/ timed_stop_after(th)

\* The steps every start() and stop() share, and App._terminate
AppStep(th) ==
    \/ App_launch_process_ok(th)
    \/ App_launch_process_fail(th)
    \/ App_start_wait_alive(th)
    \/ App_start_finish(th)
    \/ App_stop_done(th)
    \/ App_terminate_graceful(th)
    \/ App_terminate_ignored(th)
    \/ App_terminate_exited(th)
    \/ App_terminate_poll_exited(th)
    \/ App_terminate_poll_sleep(th)
    \/ App_terminate_kill(th)
    \/ App_terminate_scan(th)

\* Base
BaseStep(th) ==
    \/ App_start_alive(th)
    \/ Base_stop(th)

\* The Tailer part of a start(), and the scan of _terminate that sleeps
TailerStep(th) ==
    \/ App_start_tailer(th)
    \/ Tailer_start_wait(th)
    \/ Tailer_start_run(th)
    \/ App_terminate_scanned(th)

\* ETS and BeamMP
PlainStep(th) ==
    \/ App_start_alive(th)
    \/ ETS_stop(th)
    \/ BeamMP_stop(th)
    \/ BeamMP_stop_stdin_fails(th)
    \/ BeamMP_stop_detach(th)

RconStep(th) ==
    \/ RconClient_setup(th)
    \/ RconClient_setup_try(th)
    \/ RconClient_setup_connected(th)
    \/ RconClient_setup_refused(th)
    \/ RconClient_setup_exhausted(th)
    \/ RconClient_setup_error(th)
    \/ RconClient_teardown_close(th)
    \/ RconClient_teardown(th)
    \/ RconClient_send_dead(th)
    \/ RconClient_send_setup(th)
    \/ RconClient_send_setup_failed(th)
    \/ RconClient_send_command(th)
    \/ RconClient_send_ok(th)
    \/ RconClient_send_failed(th)
    \/ RconClient_send_resetup(th)
    \/ RconClient_send_resetup_done(th)

\* Factorio and Minecraft
RconAppStep(th) ==
    \/ App_start_rcon_setup(th)
    \/ App_start_setup_raised(th)
    \/ App_start_setup_done(th)
    \/ Factorio_start_lockwait(th)
    \/ Factorio_stop(th)
    \/ Factorio_stop_send_raised(th)
    \/ Factorio_stop_stdin_fails(th)
    \/ Factorio_stop_players(th)
    \/ Factorio_stop_detach(th)
    \/ Factorio_stop_terminate(th)
    \/ Factorio_stop_sleep(th)
    \/ Minecraft_stop(th)
    \/ Minecraft_stop_save(th)
    \/ Minecraft_stop_saved(th)
    \/ Minecraft_stop_shutdown(th)
    \/ Minecraft_stop_shutdown_sent(th)
    \/ Minecraft_stop_graceful(th)
    \/ Minecraft_stop_poll(th)
    \/ Minecraft_stop_force(th)

TelnetStep(th) ==
    \/ TelnetClient_setup(th)
    \/ TelnetClient_setup_wait(th)
    \/ TelnetClient_setup_open(th)
    \/ TelnetClient_setup_connected(th)
    \/ TelnetClient_setup_refused(th)
    \/ TelnetClient_setup_failed(th)
    \/ TelnetClient_teardown_idle(th)
    \/ TelnetClient_teardown_close(th)
    \/ TelnetClient_teardown(th)
    \/ TelnetClient_send_dead(th)
    \/ TelnetClient_send_setup(th)
    \/ TelnetClient_send_setup_failed(th)
    \/ TelnetClient_send_ok(th)
    \/ TelnetClient_send_failed(th)
    \/ TelnetClient_send_failed_done(th)

\* SevenDays
TelnetAppStep(th) ==
    \/ App_start_telnet_setup(th)
    \/ SevenDays_stop(th)
    \/ SevenDays_stop_saved(th)
    \/ SevenDays_stop_shutdown(th)
    \/ SevenDays_stop_send_raised(th)
    \/ SevenDays_stop_players(th)
    \/ SevenDays_stop_detach(th)
    \/ SevenDays_stop_terminate(th)

\* Steps that need a second coroutine working on the same app
RaceStep(th) ==
    \/ App_terminate_skip(th)
    \/ App_terminate_poll_gone(th)
    \/ App_start_no_log(th)
    \/ Tailer_start_woken(th)
    \/ TelnetClient_setup_blocked(th)

\* --------------------------------------------------------------- Registry
\* Two command handlers at once over two Base apps: launch() and end() in
\* every interleaving, with processes exiting on their own.
InitRegistry == Init /\ appType = [a \in Apps |-> "base"]

NextRegistry ==
    \/ \E t \in Tasks, a \in Apps : CmdLaunch(t, a)
    \/ \E t \in Tasks, name \in Apps \cup {NoApp} : CmdEnd(t, name)
    \/ \E th \in Threads : ManagerStep(th)
    \/ \E th \in Threads : AppStep(th)
    \/ \E th \in Threads : BaseStep(th)
    \/ \E th \in Threads : App_terminate_poll_gone(th)
    \/ \E a \in Apps : ProcExit(a)

Spec == InitRegistry /\ [][NextRegistry]_vars

LiveApps == {a \in Apps : check_running(a)}

\* C1: under any interleaving of launch(), end() and process exits, at most
\* one workload has a live process (check_running() true) at any time.
C1_AtMostOneLive == Cardinality(LiveApps) <= 1

\* C9: a stop() that overlaps a start() still in progress never leaves the
\* workload flagged running after its process was terminated: no workload
\* has its running flag set while its process handle is cleared.
C9_NoRunningFlagWithoutProcess ==
    \A a \in Apps : ~(running[a] /\ process[a] = "none")

\* -------------------------------------------------------------- lifecycle
\* One command handler at a time over one app of any type: every start()
\* and stop(), with the protocol client and the process answering in every
\* way they can.
InitLife == Init /\ appType["a2"] = "base"

NextLife ==
    \/ CmdLaunch("t1", "a1")
    \/ \E name \in {"a1", NoApp} : CmdEnd("t1", name)
    \/ \E th \in Threads : ManagerStep(th)
    \/ \E th \in Threads : AppStep(th)
    \/ \E th \in Threads : BaseStep(th)
    \/ \E th \in Threads : PlainStep(th)
    \/ \E th \in Threads : TailerStep(th)
    \/ \E th \in Threads : RconStep(th)
    \/ \E th \in Threads : RconAppStep(th)
    \/ \E th \in Threads : TelnetStep(th)
    \/ \E th \in Threads : TelnetAppStep(th)
    \/ App_Manager_update_current
    \/ \E a \in Apps : ProcExit(a)

SpecLife == InitLife /\ [][NextLife]_vars

\* Thread th is back in timed_stop from the stop() it awaited.
StopReturned(th) ==
    /\ stack[th] # <<>>
    /\ Top(th).fn = "timed_stop"
    /\ Top(th).pc = "ts_after"

\* C5: for every workload type and every state of its protocol client, a
\* stop() ends with check_running() false, even when the process ignores the
\* graceful terminate signal.
C5_StopEndsNotRunning ==
    \A th \in Threads : StopReturned(th) => ~check_running(Top(th).app)

\* C6: in every start() the running flag is false at every point before
\* the one where start() sets it (after the process is alive, setup() has
\* returned and the Tailer was started).
C6_FlagFalseDuringStart ==
    \A th \in Threads : \A a \in Apps : InCall(th, "start", a) => ~running[a]

\* The protocol client of app a is detached (torn down).
ClientDetached(a) ==
    /\ ~rcon[a].obj /\ ~rcon[a].connected /\ ~rcon[a].running
    /\ ~telnet[a].running

\* Thread th is in a stop() that is about to terminate the process.
StopTerminates(th) ==
    /\ stack[th] # <<>>
    /\ Top(th).fn = "terminate"
    /\ Top(th).pc = "tm_begin"

\* C7: in every stop() the process is terminated only after the Tailer and
\* the protocol client have been detached.
C7_DetachedBeforeTerminate ==
    \A th \in Threads :
        StopTerminates(th) =>
            /\ tail[Top(th).app] # "running"
            /\ ClientDetached(Top(th).app)

\* ---------------------------------------------------------------- polling
\* One command handler at a time over two Base apps, with the polling task
\* of App_Manager.post_init (update_current) and the enable toggle.
PollStep(th) ==
    \/ ManagerStep(th)
    \/ App_Manager_launch_disabled(th)
    \/ AppStep(th)
    \/ BaseStep(th)

NextPoll ==
    \/ \E a \in Apps : CmdLaunch("t1", a)
    \/ \E name \in Apps \cup {NoApp} : CmdEnd("t1", name)
    \/ \E a \in Apps, state \in BOOLEAN : App_Manager_toggle(a, state)
    \/ \E th \in Threads : PollStep(th)
    \/ App_Manager_update_current
    \/ \E a \in Apps : ProcExit(a)

\* The event loop runs every coroutine that is ready: a coroutine that can
\* step does step (weak fairness per coroutine).  The polling task sleeps
\* one second per turn and the loop's ready queue is first-in first-out, so
\* its turn comes whenever the loop is between two coroutine steps often
\* enough (strong fairness).  Commands and process exits are not fair: users
\* and processes owe nothing.
PollFairness ==
    /\ SF_vars(App_Manager_update_current)
    /\ \A th \in Threads : WF_vars(PollStep(th))

SpecPoll == InitRegistry /\ [][NextPoll]_vars /\ PollFairness

\* Thread th is in a start() whose spawn failed, waiting for the process.
StartSpawnFailed(th) ==
    /\ stack[th] # <<>>
    /\ Top(th).fn = "start"
    /\ Top(th).pc = "s_wait"
    /\ Top(th).n = 1

\* C8: if spawning the process fails, start() terminates (and hands the
\* failure to its caller): it does not stay in its wait for the process.
C8_SpawnFailureEndsStart ==
    \A th \in Threads : StartSpawnFailed(th) ~> ~StartSpawnFailed(th)

\* The current workload's process is not running (it exited, or was never
\* there) and the Registry still names it.
CurrentDead(a) == current = a /\ ~check_running(a)

\* C10: if the current workload's process exits without stop() having been
\* called, the polling loop eventually clears Registry.current.
C10_PollClearsCurrent ==
    \A a \in Apps : CurrentDead(a) ~> ~CurrentDead(a)

\* C10, reached: the process of a workload exited on its own (its flag is
\* still set, so no stop() ran), no command is in progress, and the Registry
\* names no current workload any more.
C10_Witness ==
    \E a \in Apps :
        /\ process[a] = "exited"
        /\ running[a]
        /\ current = NoApp
        /\ \A th \in Threads : stack[th] = <<>>

\* Some coroutine of task t is in stop() of app a.
Stopping(t, a) == \E th \in Threads : th[1] = t /\ InCall(th, "stop", a)

\* Task t is in start() of app a.
Starting(t, a) == InCall(Main(t), "start", a)

\* C11: a launch() of a workload that is running is rejected: while the
\* launch(a) call is in progress and a's process is alive, the call neither
\* enters stop() of a nor start() of a.
C11_RunningLaunchRejected ==
    [][\A t \in Tasks, a \in Apps :
          (InCall(Main(t), "launch", a) /\ check_running(a)) =>
              /\ ~(~Stopping(t, a) /\ Stopping(t, a)')
              /\ ~(~Starting(t, a) /\ Starting(t, a)')]_vars

\* ----------------------------------------------------- Tailer._reader_loop
\* A line is a sequence of characters; readline() hands it over with its
\* newline.
LineSet == {<<>>, <<"a">>, <<"b">>, <<" ", "a">>, <<" ">>}
Raw(l) == Append(l, "\n")

RECURSIVE LStrip(_, _)
LStrip(l, cs) ==
    IF l # <<>> /\ Head(l) \in cs THEN LStrip(Tail(l), cs) ELSE l

RECURSIVE RStrip(_, _)
RStrip(l, cs) ==
    IF l # <<>> /\ l[Len(l)] \in cs
       THEN RStrip(SubSeq(l, 1, Len(l) - 1), cs) ELSE l

\* str.rstrip("\r\n") and str.strip(" \r\n\t")
RStripNewline(l) == RStrip(l, {"\r", "\n"})
Strip(l) == RStrip(LStrip(l, {" ", "\r", "\n", "\t"}), {" ", "\r", "\n", "\t"})

\* lines 176-188: what the reader hands to the loop for the next line (the
\* stream reader strips the line end, the file readers do not)
ReadLine ==
    IF kind = "stream" THEN RStripNewline(Raw(lines[pos + 1]))
                       ELSE Raw(lines[pos + 1])

\* lines 197-198: an empty line is passed over
Tailer_reader_loop_skip ==
    /\ rpc = "read"
    /\ pos < Len(lines)
    /\ ReadLine = <<>>
    /\ pos' = pos + 1
    /\ UNCHANGED <<lines, kind, raises, rpc, cur, midx, got, tlog, relayVars,
                   poolVars, extVars, regVars, appVars, cliVars, thrVars>>

\* lines 200-204: the line is stripped and stored under the next index
Tailer_reader_loop_line ==
    /\ rpc = "read"
    /\ pos < Len(lines)
    /\ ReadLine # <<>>
    /\ pos' = pos + 1
    /\ cur' = Strip(ReadLine)
    /\ tlog' = Append(tlog, Strip(ReadLine))
    /\ midx' = 1
    /\ rpc' = "dispatch"
    /\ UNCHANGED <<lines, kind, raises, got, relayVars,
                   poolVars, extVars, regVars, appVars, cliVars, thrVars>>

\* lines 209-212: await matcher(line), and the matcher returns
Tailer_reader_loop_matcher ==
    /\ rpc = "dispatch"
    /\ MatcherOrder[midx] \notin raises
    /\ got' = [got EXCEPT ![MatcherOrder[midx]] = Append(@, cur)]
    /\ IF midx < Len(MatcherOrder)
          THEN midx' = midx + 1 /\ rpc' = rpc
          ELSE midx' = 1 /\ rpc' = "read"
    /\ UNCHANGED <<lines, kind, raises, pos, cur, tlog, relayVars,
                   poolVars, extVars, regVars, appVars, cliVars, thrVars>>

\* lines 212-218: the matcher raises; the try block encloses the whole
\* while loop, so the handler runs and the coroutine ends
Tailer_reader_loop_matcher_raises ==
    /\ rpc = "dispatch"
    /\ MatcherOrder[midx] \in raises
    /\ got' = [got EXCEPT ![MatcherOrder[midx]] = Append(@, cur)]
    /\ rpc' = "dead"
    /\ UNCHANGED <<lines, kind, raises, pos, cur, midx, tlog, relayVars,
                   poolVars, extVars, regVars, appVars, cliVars, thrVars>>

\* A running Tailer with its matchers registered, before the first read,
\* over any source of at most MaxLines lines.
InitTailer ==
    /\ InitApps /\ appType = [a \in Apps |-> "base"]
    /\ RelayIdle /\ PoolIdle /\ ExtIdle
    /\ lines \in UNION {[1..n -> LineSet] : n \in 0..MaxLines}
    /\ kind \in {"stream", "text"}
    /\ raises \in SUBSET MatcherSet
    /\ pos = 0
    /\ rpc = "read"
    /\ cur = <<>>
    /\ midx = 1
    /\ got = [m \in MatcherSet |-> <<>>]
    /\ tlog = <<>>

NextTailer ==
    \/ Tailer_reader_loop_skip
    \/ Tailer_reader_loop_line
    \/ Tailer_reader_loop_matcher
    \/ Tailer_reader_loop_matcher_raises

SpecTailer == InitTailer /\ [][NextTailer]_vars

\* The read loop has nothing left to do: it has ended, or it has consumed
\* the source and dispatched the last line.
TailerQuiescent == rpc = "dead" \/ (rpc = "read" /\ pos = Len(lines))

IsPrefix(p, q) == Len(p) <= Len(q) /\ SubSeq(q, 1, Len(p)) = p

\* The lines of the source as a matcher sees them (stripped), in order.
SourceLines == [i \in 1..Len(lines) |-> Strip(lines[i])]

\* C2: every registered matcher is invoked on every line of the source
\* exactly once and in source order, all matchers finishing line k before
\* any is invoked on line k+1; no line is skipped, duplicated or reordered.
C2_EveryLineOnceInOrder ==
    /\ \A m \in MatcherSet : IsPrefix(got[m], SourceLines)
    /\ \A m, k \in MatcherSet : Len(got[m]) <= Len(got[k]) + 1
    /\ TailerQuiescent => \A m \in MatcherSet : got[m] = SourceLines

\* The lines the read path passes on to the matchers (a stream reader drops
\* the lines that are empty after the line end is removed).
RECURSIVE Dispatched(_)
Dispatched(i) ==
    IF i = 0 THEN <<>>
    ELSE IF kind = "stream" /\ RStripNewline(Raw(lines[i])) = <<>>
         THEN Dispatched(i - 1)
         ELSE Append(Dispatched(i - 1), Strip(lines[i]))

\* C3: a matcher that raises on every line does not keep the other
\* matchers from receiving that line and every later one.
C3_MatcherIsolation ==
    TailerQuiescent =>
        \A m \in MatcherSet \ raises : got[m] = Dispatched(Len(lines))

\* -------------------------------------------------- DC_Relay.on_dc_message
\* lines 493-502: the event is not a human's, its channel has no app, or
\* the text starts with the ignore prefix: return
DC_Relay_on_dc_message_filtered(h, m) ==
    /\ handler[h] = 0
    /\ delivered[m] < MaxDeliveries
    /\ ~relevant[m]
    /\ delivered' = [delivered EXCEPT ![m] = @ + 1]
    /\ UNCHANGED <<seen_messages_id, relevant, hasFiles, handler, fan,
                   tailerVars, poolVars, extVars, regVars, appVars, cliVars, thrVars>>

\* lines 504-506: the identity was seen before: return
DC_Relay_on_dc_message_dupe(h, m) ==
    /\ handler[h] = 0
    /\ delivered[m] < MaxDeliveries
    /\ relevant[m]
    /\ m \in seen_messages_id
    /\ delivered' = [delivered EXCEPT ![m] = @ + 1]
    /\ UNCHANGED <<seen_messages_id, relevant, hasFiles, handler, fan,
                   tailerVars, poolVars, extVars, regVars, appVars, cliVars, thrVars>>

\* lines 507-520: the identity is new: it is recorded (no await lies between
\* the test and the add), then the handler awaits the channel and the
\* attachments
DC_Relay_on_dc_message_accept(h, m) ==
    /\ handler[h] = 0
    /\ delivered[m] < MaxDeliveries
    /\ relevant[m]
    /\ m \notin seen_messages_id
    /\ seen_messages_id' = seen_messages_id \cup {m}
    /\ handler' = [handler EXCEPT ![h] = m]
    /\ delivered' = [delivered EXCEPT ![m] = @ + 1]
    /\ UNCHANGED <<relevant, hasFiles, fan,
                   tailerVars, poolVars, extVars, regVars, appVars, cliVars, thrVars>>

\* lines 518-520: File_Utils.download_temp raises (it handles no error, nor
\* does on_dc_message): the handler ends
DC_Relay_on_dc_message_download_fails(h) ==
    /\ handler[h] # 0
    /\ hasFiles[handler[h]]
    /\ handler' = [handler EXCEPT ![h] = 0]
    /\ UNCHANGED <<seen_messages_id, relevant, hasFiles, delivered, fan,
                   tailerVars, poolVars, extVars, regVars, appVars, cliVars, thrVars>>

\* lines 522-539: the message is built and enriched, and the fan-out over
\* the channel's subscribers is reached
DC_Relay_on_dc_message_fanout(h) ==
    /\ handler[h] # 0
    /\ fan' = [fan EXCEPT ![handler[h]] = @ + 1]
    /\ handler' = [handler EXCEPT ![h] = 0]
    /\ UNCHANGED <<seen_messages_id, relevant, hasFiles, delivered,
                   tailerVars, poolVars, extVars, regVars, appVars, cliVars, thrVars>>

\* The listeners are subscribed (main.on_starting); the messages to come
\* are of every sort.
InitRelay ==
    /\ InitApps /\ appType = [a \in Apps |-> "base"]
    /\ TailerIdle /\ PoolIdle /\ ExtIdle
    /\ seen_messages_id = {}
    /\ relevant \in [MsgIds -> BOOLEAN]
    /\ hasFiles \in [MsgIds -> BOOLEAN]
    /\ delivered = [m \in MsgIds |-> 0]
    /\ handler = [h \in Listeners |-> 0]
    /\ fan = [m \in MsgIds |-> 0]

NextRelay ==
    \/ \E h \in Listeners, m \in MsgIds : DC_Relay_on_dc_message_filtered(h, m)
    \/ \E h \in Listeners, m \in MsgIds : DC_Relay_on_dc_message_dupe(h, m)
    \/ \E h \in Listeners, m \in MsgIds : DC_Relay_on_dc_message_accept(h, m)
    \/ \E h \in Listeners : DC_Relay_on_dc_message_download_fails(h)
    \/ \E h \in Listeners : DC_Relay_on_dc_message_fanout(h)

SpecRelay == InitRelay /\ [][NextRelay]_vars

\* No listener is handling message m.
Handled(m) == \A h \in Listeners : handler[h] # m

\* C4: an inbound chat event whose identity was delivered twice has had
\* exactly one fan-out once its handlers are done.
C4_ExactlyOneFanout ==
    \A m \in MsgIds :
        (relevant[m] /\ delivered[m] >= 2 /\ Handled(m)) => fan[m] = 1

\* The part of C4 that the test-and-add of seen_messages_id gives: of all
\* the deliveries of one identity at most one gets past the check, so the
\* fan-out is reached at most once.
DedupAtMostOnce ==
    \A m \in MsgIds :
        fan[m] + Cardinality({h \in Listeners : handler[h] = m}) <= 1

\* ------------------------------------------- protocol client instance pool
\* The most instances one class makes here.
MaxClients == 2

\* RconClient.__init__ / TelnetClient.__init__ on a new instance: the
\* settings are stored, the connection state is cleared.
NewClient(m) == [max_attempts |-> m, connected |-> FALSE]

\* The constructor Client_new below with no _initialized test in __init__:
\* the instance found is initialised again.
Client_new_reinit(k, m) ==
    /\ instances[k] # 0 \/ Len(clients) < MaxClients
    /\ IF instances[k] # 0
          THEN /\ made' = instances[k]
               /\ clients' = [clients EXCEPT ![instances[k]] = NewClient(m)]
               /\ UNCHANGED instances
          ELSE /\ clients' = Append(clients, NewClient(m))
               /\ instances' = [instances EXCEPT ![k] = Len(clients) + 1]
               /\ made' = Len(clients) + 1
    /\ UNCHANGED <<variant, tailerVars, relayVars, extVars,
                   regVars, appVars, cliVars,
                   thrVars>>

\* cls(app_alive, port, host=.., max_attempts=m): __new__ looks the key up
\* and returns the instance it finds, or makes one and stores it; __init__
\* then runs on what __new__ returned and returns at once when the instance
\* is _initialized.
Client_new(k, m) ==
    /\ instances[k] # 0 \/ Len(clients) < MaxClients
    /\ IF instances[k] # 0
          THEN /\ made' = instances[k]
               /\ UNCHANGED <<instances, clients>>
          ELSE /\ clients' = Append(clients, NewClient(m))
               /\ instances' = [instances EXCEPT ![k] = Len(clients) + 1]
               /\ made' = Len(clients) + 1
    /\ UNCHANGED <<variant, tailerVars, relayVars, extVars,
                   regVars, appVars, cliVars,
                   thrVars>>

\* What setup() (connected) and teardown() (disconnected) leave of the
\* connection state of instance i.
Client_setup(i) ==
    /\ i \in 1..Len(clients)
    /\ ~clients[i].connected
    /\ clients' = [clients EXCEPT ![i].connected = TRUE]
    /\ UNCHANGED <<variant, instances, made, tailerVars, relayVars, extVars,
                   regVars,
                   appVars, cliVars, thrVars>>

Client_teardown(i) ==
    /\ i \in 1..Len(clients)
    /\ clients[i].connected
    /\ clients' = [clients EXCEPT ![i].connected = FALSE]
    /\ UNCHANGED <<variant, instances, made, tailerVars, relayVars, extVars,
                   regVars,
                   appVars, cliVars, thrVars>>

\* Either class, from its class body on.
InitPool ==
    /\ InitApps /\ appType = [a \in Apps |-> "base"]
    /\ TailerIdle /\ RelayIdle /\ ExtIdle
    /\ variant \in {"rcon", "telnet"}
    /\ instances = [k \in Keys |-> 0]
    /\ clients = <<>>
    /\ made = 0

NextPool ==
    \/ \E k \in Keys, m \in 1..MaxAttempts : Client_new(k, m)
    \/ \E i \in 1..MaxClients : Client_setup(i)
    \/ \E i \in 1..MaxClients : Client_teardown(i)

SpecPool == InitPool /\ [][NextPool]_vars

\* C12: for every (predicate identity, host, port) key and both client
\* classes, constructing a client for a key that has an instance returns
\* that instance and leaves its settings and connection state (and the
\* pool) as they were, whatever setup/teardown did in between.
C12_SameInstance ==
    [][\A k \in Keys, m \in 1..MaxAttempts :
          (Client_new(k, m) /\ instances[k] # 0) =>
              /\ made' = instances[k]
              /\ clients' = clients
              /\ instances' = instances]_vars

\* C12, reached: the first instance was made, connected, a second instance
\* was made for another key, and a construction for the first key returned
\* the first instance, still connected.
C12_Witness ==
    /\ Len(clients) = 2
    /\ made = 1
    /\ clients[1].connected

\* ------------------------------------------------------- protocol clients
\* One command handler at a time over one app that has a protocol client
\* (Factorio, Minecraft, SevenDays), with the polling task its start()
\* creates: setup(), send() and teardown() from start(), stop() and the
\* poller, in every interleaving, the server answering in every way.
InitClient ==
    /\ Init
    /\ appType["a1"] \in RconTypes \cup TelnetTypes
    /\ appType["a2"] = "base"

ClientStep(th) ==
    \/ ManagerStep(th)
    \/ AppStep(th)
    \/ App_start_tailer(th)
    \/ Tailer_start_wait(th)
    \/ Tailer_start_run(th)
    \/ RconStep(th)
    \/ RconAppStep(th)
    \/ TelnetStep(th)
    \/ TelnetAppStep(th)
    \/ TelnetClient_setup_blocked(th)
    \/ Players_listplayers_sent(th)
    \/ Players_listplayers_raised(th)

NextClient ==
    \/ CmdLaunch("t1", "a1")
    \/ \E name \in {"a1", NoApp} : CmdEnd("t1", name)
    \/ \E th \in Threads : ClientStep(th)
    \/ Players_listplayers("a1")
    \/ App_Manager_update_current
    \/ ProcExit("a1")

\* The event loop runs the coroutines that are ready first-in first-out,
\* so one that is ready again and again gets its turn (it cannot be passed
\* over for ever by the others), and the polling task takes its next turn
\* after its sleep as long as it lives (strong fairness).  Commands, process
\* exits and the polling of the Registry are not fair.
\* The coroutines there are here: those of the command task t1, and the
\* polling task of a1 (nothing starts another task or a time task).
ClientThreads == {th \in Threads : th[1] = "t1"} \cup {Poller("a1")}

ClientFairness ==
    /\ \A th \in ClientThreads : SF_vars(ClientStep(th))
    /\ SF_vars(Players_listplayers("a1"))

SpecClient == InitClient /\ [][NextClient]_vars /\ ClientFairness

\* The protocol client of app a holds a connection, by its own attributes.
Connected(a) ==
    IF appType[a] \in RconTypes THEN rcon[a].obj /\ rcon[a].connected
                                ELSE is_connected(a)

\* Thread th is in function f (its innermost frame).
Running(th, f) == stack[th] # <<>> /\ Top(th).fn = f

\* This step is the return of thread th's innermost frame, a frame of f.
Returns(th, f) == Running(th, f) /\ stack'[th] = Tail(stack[th])

\* C13: in both client variants setup() starts a connection attempt only
\* at a moment when the liveness predicate (check_running of its app) is
\* true.
C13_AttemptOnlyWhileAlive ==
    [][\A th \in Threads :
          (RconClient_setup_try(th) \/ TelnetClient_setup_open(th)) =>
              check_running(Top(th).app)]_vars

\* Thread th is inside a setup() call.
InSetup(th) == Running(th, "rcon_setup") \/ Running(th, "telnet_setup")

\* C14: every setup() call terminates, also when the liveness predicate
\* stays false for the whole call.
C14_SetupTerminates ==
    \A th \in Threads : InSetup(th) ~> ~InSetup(th)

\* C15: setup() never returns normally while the client is not connected:
\* it raises when its attempts failed.
C15_SetupReturnsConnected ==
    [][\A th \in Threads :
          ((Returns(th, "rcon_setup") \/ Returns(th, "telnet_setup"))
               /\ ret'[th] # "raise") =>
              Connected(Top(th).app)']_vars

\* C16: a setup() call made while the client is connected returns at once
\* and leaves the transport in place.
C16_SetupIdempotent ==
    [][\A th \in Threads :
          ((RconClient_setup(th) \/ TelnetClient_setup(th))
               /\ Connected(Top(th).app)) =>
              /\ stack'[th] = Tail(stack[th])
              /\ Connected(Top(th).app)']_vars

\* The protocol client of app a is as a teardown() leaves it: no transport,
\* connection state cleared.
TornDown(a) ==
    IF appType[a] \in RconTypes
       THEN rcon[a] = RconInit
       ELSE /\ ~telnet[a].reader /\ ~telnet[a].writer
            /\ ~telnet[a].running /\ ~telnet[a].event

\* This step is a teardown() call of thread th from its first statement.
TeardownBegins(th) ==
    \/ RconClient_teardown_close(th) \/ RconClient_teardown(th)
    \/ TelnetClient_teardown_idle(th) \/ TelnetClient_teardown_close(th)
    \/ TelnetClient_teardown(th)

\* C17: when teardown() returns the client is disconnected with its
\* connection state cleared, and it does not raise; teardown() on a client
\* that is torn down (or was never connected) returns at once and changes
\* nothing.
C17_TeardownClearsIdempotent ==
    [][\A th \in Threads :
          /\ (Returns(th, "rcon_teardown") \/ Returns(th, "telnet_teardown"))
                 => (TornDown(Top(th).app)' /\ ret'[th] # "raise")
          /\ (TeardownBegins(th) /\ Top(th).pc \in {"rt_begin", "tt_begin"}
                 /\ TornDown(Top(th).app))
                 => (UNCHANGED cliVars /\ stack'[th] = Tail(stack[th]))]_vars

\* C18: send() never raises to its caller.
C18_SendNeverRaises ==
    [][\A th \in Threads :
          (Returns(th, "rcon_send") \/ Returns(th, "telnet_send")) =>
              ret'[th] # "raise"]_vars

\* A step in which the server or the network fails the client: an attempt
\* is refused or ends in an error, a command fails.
TransportFails(th) ==
    \/ RconClient_setup_refused(th)
    \/ RconClient_setup_exhausted(th)
    \/ RconClient_setup_error(th)
    \/ RconClient_send_failed(th)
    \/ TelnetClient_setup_refused(th)
    \/ TelnetClient_setup_failed(th)
    \/ TelnetClient_send_failed(th)

\* The polling task has a send() in progress / has got "ok" from its send().
PollerSends == stack[Poller("a1")] # <<>>
PollerSendOk ==
    /\ Running(Poller("a1"), "listplayers")
    /\ ret[Poller("a1")] = "ok"

Attempting(th, a) ==
    /\ stack[th] # <<>>
    /\ Top(th).app = a
    /\ \/ Top(th).fn = "rcon_setup" /\ Top(th).pc = "rs_conn"
       \/ Top(th).fn = "telnet_setup" /\ Top(th).pc = "tl_conn"

\* C20: for each protocol client at most one connection attempt is in
\* progress at a time.
C20_OneAttemptAtATime ==
    \A a \in Apps : Cardinality({th \in Threads : Attempting(th, a)}) <= 1

\* ------------------------------------------- DC_Relay: the outbound queue
\* A matcher builds DC_Bound(app, ..) and calls DC_Relay.add: Message.__init__
\* creates the enrichment task (lines 253-254, enrich defaults to True), add
\* appends to the deque (line 391).
DC_Relay_add(m) ==
    /\ m = Len(added) + 1
    /\ enrich' = [enrich EXCEPT ![m] = "pending"]
    /\ queue' = Append(queue, m)
    /\ added' = Append(added, m)
    /\ UNCHANGED <<deq, qpc, mess, chan, sendOk, fmt, outcome, fanVars,
                   winVars, tailerVars, relayVars, poolVars, moreVars, regVars, appVars,
                   cliVars, thrVars>>

\* Message.find_urls (lines 272-277): the enrichment task runs to its end
\* and stores the link set.
Message_find_urls(m) ==
    /\ enrich[m] = "pending"
    /\ enrich' = [enrich EXCEPT ![m] = "done"]
    /\ UNCHANGED <<queue, added, deq, qpc, mess, chan, sendOk, fmt, outcome,
                   fanVars, winVars, tailerVars, relayVars, poolVars, moreVars, regVars,
                   appVars, cliVars, thrVars>>

\* _queue_task lines 413-420 and _send_dc lines 449-456: the queue is not
\* empty, so its head is popped and _send_dc begins.  With the channel in
\* _channel_objects nothing is awaited before the text is formatted (lines
\* 461-470) and line 473 is reached; otherwise resolve_channel is awaited.
DC_Relay_queue_task_pop ==
    /\ qpc = "idle"
    /\ queue # <<>>
    /\ mess' = Head(queue)
    /\ queue' = Tail(queue)
    /\ deq' = Append(deq, Head(queue))
    /\ IF chan[Head(queue)] = "cached"
          THEN /\ fmt' = [fmt EXCEPT ![Head(queue)] = enrich[Head(queue)]]
               /\ qpc' = "enrich"
          ELSE /\ fmt' = fmt
               /\ qpc' = "resolve"
    /\ UNCHANGED <<added, chan, sendOk, enrich, outcome, fanVars, winVars,
                   tailerVars, relayVars, poolVars, moreVars, regVars, appVars,
                   cliVars, thrVars>>

\* _send_dc lines 456-470: resolve_channel has returned.  Without a channel
\* LookupError is raised (line 459); neither _send_dc nor _queue_task handles
\* it, so the consumer task ends with it.  With a channel the text is
\* formatted and line 473 is reached.
DC_Relay_send_dc_resolved ==
    /\ qpc = "resolve"
    /\ IF chan[mess] = "none"
          THEN /\ outcome' = [outcome EXCEPT ![mess] = "dropped"]
               /\ qpc' = "dead"
               /\ mess' = 0
               /\ fmt' = fmt
          ELSE /\ fmt' = [fmt EXCEPT ![mess] = enrich[mess]]
               /\ qpc' = "enrich"
               /\ UNCHANGED <<outcome, mess>>
    /\ UNCHANGED <<queue, added, deq, chan, sendOk, enrich, fanVars, winVars,
                   tailerVars, relayVars, poolVars, moreVars, regVars, appVars,
                   cliVars, thrVars>>

\* _send_dc lines 472-479: await message.enrich_task returns once the task
\* is done; chan.send is called and awaited.
DC_Relay_send_dc_enriched ==
    /\ qpc = "enrich"
    /\ enrich[mess] = "done"
    /\ qpc' = "send"
    /\ UNCHANGED <<queue, added, deq, mess, chan, sendOk, enrich, fmt,
                   outcome, fanVars, winVars, tailerVars, relayVars, poolVars,
                   moreVars, regVars, appVars, cliVars, thrVars>>

\* _send_dc lines 475-482 and _queue_task line 413: chan.send returns, or it
\* raises and the handler logs and drops the message; the loop goes round.
DC_Relay_send_dc_sent ==
    /\ qpc = "send"
    /\ outcome' = [outcome EXCEPT
                     ![mess] = IF sendOk[mess] THEN "sent" ELSE "dropped"]
    /\ qpc' = "idle"
    /\ mess' = 0
    /\ UNCHANGED <<queue, added, deq, chan, sendOk, enrich, fmt, fanVars,
                   winVars, tailerVars, relayVars, poolVars, moreVars, regVars, appVars,
                   cliVars, thrVars>>

\* ------------------------------------ DC_Relay.on_dc_message: the fan-out
\* lines 522-531: the App_Bound is built, which creates its enrichment task
\* (Message.__init__, lines 253-254).  For an event without text (noText)
\* lines 524-528 rewrite _string and test message.urls at once, before the
\* task has run.  Then the task is awaited.
DC_Relay_on_dc_message_build(noText) ==
    /\ fpc = "idle"
    /\ inEnrich' = "pending"
    /\ readEarly' = noText
    /\ fpc' = "built"
    /\ UNCHANGED <<subscribed, am_receiver, hasSpecial, callbacks, cbRaises,
                   todo, invoked, outVars, winVars, tailerVars, relayVars,
                   poolVars, moreVars, regVars, appVars, cliVars, thrVars>>

\* Message.find_urls of the App_Bound (lines 272-277) runs to its end.
App_Bound_find_urls ==
    /\ inEnrich = "pending"
    /\ inEnrich' = "done"
    /\ UNCHANGED <<subscribed, am_receiver, hasSpecial, callbacks, cbRaises,
                   fpc, todo, invoked, readEarly, outVars, winVars,
                   tailerVars, relayVars, poolVars, moreVars, regVars, appVars,
                   cliVars, thrVars>>

\* lines 530-532: the await of the task returns; the loop over the apps of
\* the channel begins.
DC_Relay_on_dc_message_enriched ==
    /\ fpc = "built"
    /\ inEnrich = "done"
    /\ fpc' = "apps"
    /\ todo' = subscribed
    /\ UNCHANGED <<subscribed, am_receiver, hasSpecial, callbacks, cbRaises,
                   invoked, inEnrich, readEarly, outVars, winVars,
                   tailerVars, relayVars, poolVars, moreVars, regVars, appVars,
                   cliVars, thrVars>>

\* lines 532-536, one iteration (a set is iterated in any order): the
\* receiver of app a is awaited when the app is _running and its
\* am_receiver is set.
DC_Relay_on_dc_message_app(a) ==
    /\ fpc = "apps"
    /\ a \in todo
    /\ todo' = todo \ {a}
    /\ invoked' = IF running[a] /\ am_receiver[a]
                     THEN [invoked EXCEPT ![a] = @ + 1]
                     ELSE invoked
    /\ UNCHANGED <<subscribed, am_receiver, hasSpecial, callbacks, cbRaises,
                   fpc, inEnrich, readEarly, outVars, winVars, tailerVars,
                   relayVars, poolVars, moreVars, regVars, appVars, cliVars, thrVars>>

\* line 537: the loop over the apps is over and _special_channels is
\* indexed with the channel: KeyError when the channel has no entry (a plain
\* dict), which ends the handler.
DC_Relay_on_dc_message_apps_done ==
    /\ fpc = "apps"
    /\ todo = {}
    /\ IF hasSpecial THEN fpc' = "special" /\ todo' = callbacks
                     ELSE fpc' = "raised" /\ todo' = todo
    /\ UNCHANGED <<subscribed, am_receiver, hasSpecial, callbacks, cbRaises,
                   invoked, inEnrich, readEarly, outVars, winVars,
                   tailerVars, relayVars, poolVars, moreVars, regVars, appVars,
                   cliVars, thrVars>>

\* lines 537-539, one iteration: send_func(message) is awaited; when it
\* raises, the exception leaves the loop and the handler.
DC_Relay_on_dc_message_special(c) ==
    /\ fpc = "special"
    /\ c \in todo
    /\ invoked' = [invoked EXCEPT ![c] = @ + 1]
    /\ todo' = todo \ {c}
    /\ fpc' = IF c \in cbRaises THEN "raised" ELSE fpc
    /\ UNCHANGED <<subscribed, am_receiver, hasSpecial, callbacks, cbRaises,
                   inEnrich, readEarly, outVars, winVars, tailerVars,
                   relayVars, poolVars, moreVars, regVars, appVars, cliVars, thrVars>>

\* line 539: the last callback has returned and the handler ends.
DC_Relay_on_dc_message_done ==
    /\ fpc = "special"
    /\ todo = {}
    /\ fpc' = "done"
    /\ UNCHANGED <<subscribed, am_receiver, hasSpecial, callbacks, cbRaises,
                   todo, invoked, inEnrich, readEarly, outVars, winVars,
                   tailerVars, relayVars, poolVars, moreVars, regVars, appVars,
                   cliVars, thrVars>>

\* --------------------------------------------- the relay, both directions
\* The consumer task is running (DC_Relay.setup, main.py:123) and the
\* matchers will add MaxMessages messages whose channel is cached, resolved
\* on demand or not found, and whose send succeeds or raises.
InitOutbound ==
    /\ queue = <<>>
    /\ added = <<>>
    /\ deq = <<>>
    /\ qpc = "idle"
    /\ mess = 0
    /\ chan \in [OutMsgs -> {"cached", "resolved", "none"}]
    /\ sendOk \in [OutMsgs -> BOOLEAN]
    /\ enrich = [m \in OutMsgs |-> "none"]
    /\ fmt = [m \in OutMsgs |-> "none"]
    /\ outcome = [m \in OutMsgs |-> "none"]

NextOutbound ==
    \/ \E m \in OutMsgs : DC_Relay_add(m)
    \/ \E m \in OutMsgs : Message_find_urls(m)
    \/ DC_Relay_queue_task_pop
    \/ DC_Relay_send_dc_resolved
    \/ DC_Relay_send_dc_enriched
    \/ DC_Relay_send_dc_sent

InitOut ==
    /\ InitApps /\ appType = [a \in Apps |-> "base"]
    /\ TailerIdle /\ RelayIdle /\ PoolIdle /\ FanIdle /\ WinIdle /\ MoreIdle
    /\ InitOutbound

SpecOut == InitOut /\ [][NextOutbound]_vars

\* One inbound event has passed the filters and the duplicate check of
\* on_dc_message.  Its channel has apps (load_apps registered them, line 93
\* of _manager.py), each started or not; every App subclass stores its
\* Receiver under the name am_recevier (for instance line 101 of
\* sevendays/__init__.py), so am_receiver keeps the None of the class body.
\* The channel may have out-of-band callbacks (_space_engineers.py:344-345).
InitInbound ==
    /\ subscribed \in SUBSET Apps \ {{}}
    /\ am_receiver = [a \in Apps |-> FALSE]
    /\ hasSpecial \in BOOLEAN
    /\ callbacks \in SUBSET Cbs
    /\ hasSpecial = FALSE => callbacks = {}
    /\ cbRaises \in SUBSET callbacks
    /\ fpc = "idle"
    /\ todo = {}
    /\ invoked = [x \in Apps \cup Cbs |-> 0]
    /\ inEnrich = "none"
    /\ readEarly = FALSE

\* The apps of the channel: a started one has a live process and _running.
InitStarted ==
    /\ current = NoApp
    /\ enabled = [a \in Apps |-> TRUE]
    /\ appType = [a \in Apps |-> "base"]
    /\ running \in [Apps -> BOOLEAN]
    /\ process = [a \in Apps |-> IF running[a] THEN "alive" ELSE "none"]
    /\ tail = [a \in Apps |-> "none"]
    /\ players = [a \in Apps |-> FALSE]
    /\ rcon = [a \in Apps |-> RconInit]
    /\ telnet = [a \in Apps |-> TelnetInit]
    /\ stack = [th \in Threads |-> <<>>]
    /\ ret = [th \in Threads |-> "none"]
    /\ active = NoThread

NextInbound ==
    \/ \E noText \in BOOLEAN : DC_Relay_on_dc_message_build(noText)
    \/ App_Bound_find_urls
    \/ DC_Relay_on_dc_message_enriched
    \/ \E a \in Apps : DC_Relay_on_dc_message_app(a)
    \/ DC_Relay_on_dc_message_apps_done
    \/ \E c \in Cbs : DC_Relay_on_dc_message_special(c)
    \/ DC_Relay_on_dc_message_done

InitFan ==
    /\ InitStarted
    /\ TailerIdle /\ RelayIdle /\ PoolIdle /\ OutIdle /\ WinIdle /\ MoreIdle
    /\ InitInbound

SpecFan == InitFan /\ [][NextInbound]_vars

\* Both directions together: the outbound messages, and one inbound event
\* on a channel with both apps and both callbacks, none of which raises.
InitChat ==
    /\ InitStarted
    /\ TailerIdle /\ RelayIdle /\ PoolIdle /\ WinIdle /\ MoreIdle
    /\ InitOutbound
    /\ InitInbound /\ subscribed = Apps /\ callbacks = Cbs /\ cbRaises = {}
    /\ \A a \in Apps : running[a]

SpecChat == InitChat /\ [][NextOutbound \/ NextInbound]_vars

\* The consumer has nothing left to do: every message was added, and the
\* task has ended or waits at an empty queue.
OutQuiescent ==
    /\ Len(added) = MaxMessages
    /\ qpc = "dead" \/ (qpc = "idle" /\ queue = <<>>)

\* C21: outbound messages are dequeued in the order add() put them on the
\* queue, none twice and none skipped; the handling of one message is
\* finished (sent or dropped) before the next is dequeued; and every message
\* put on the queue is dequeued.
C21_QueueFifoOnce ==
    /\ IsPrefix(deq, added)
    /\ \A i \in 1..(Len(deq) - 1) : outcome[deq[i]] # "none"
    /\ OutQuiescent => deq = added

\* The part of C21 that a single consumer awaiting _send_dc gives: order, no
\* repetition, one message handled at a time.
QueueFifoWhileAlive ==
    /\ IsPrefix(deq, added)
    /\ \A i \in 1..(Len(deq) - 1) : outcome[deq[i]] # "none"
    /\ qpc # "dead" /\ OutQuiescent => deq = added

\* C22: a message whose delivery failed (the send raised or its channel was
\* not resolved) is dropped and not queued again, and the consumer loop is
\* still running afterwards.
C22_DropAndContinue ==
    /\ \A m \in OutMsgs :
          outcome[m] = "dropped" =>
              /\ \A i \in 1..Len(queue) : queue[i] # m
              /\ qpc # "dead"

\* C23: in both directions, a message with an enrichment task is formatted
\* for delivery only after the task has completed, and its link set is not
\* read nor its text rewritten while the task is pending.
C23_EnrichedBeforeFormat ==
    /\ \A m \in OutMsgs : fmt[m] # "pending"
    /\ ~readEarly

\* The fan-out of the inbound event is over.
FanEnded == fpc \in {"done", "raised"}

\* C24: when the fan-out of an inbound event is over, the receiver of every
\* started app of the channel and every callback of the channel has been
\* invoked, whichever handlers raised.
C24_EverySubscriberInvoked ==
    FanEnded =>
        /\ \A a \in subscribed : running[a] => invoked[a] >= 1
        /\ \A c \in callbacks : invoked[c] >= 1

\* C25: with two started apps on one channel, one inbound message reaches
\* the receiver of each exactly once.
C25_BothReceiversOnce ==
    /\ \A a \in Apps : invoked[a] <= 1
    /\ (FanEnded /\ subscribed = Apps /\ \A a \in Apps : running[a]) =>
           \A a \in Apps : invoked[a] = 1

\* ------------------------------------------------- Tailer: tasks, LogWindow
\* C26: the read loop does not end by itself: an exception raised in one
\* iteration is caught and logged and the loop goes on (no stop() is called
\* in SpecTailer, so the loop is never dead there).
C26_ReadLoopSurvives == rpc # "dead"

\* Task.done(): false for a task whose cancellation was requested and not
\* yet delivered.
Done(t) == t = "done"

\* sorted(S) for a set of integers, ascending.
RECURSIVE Sorted(_)
Sorted(S) ==
    IF S = {} THEN <<>>
    ELSE LET x == CHOOSE y \in S : \A z \in S : y <= z
         IN  <<x>> \o Sorted(S \ {x})

\* The Python slices s[i:] and s[:j] of a list, for any integers i and j.
SliceFrom(s, i) ==
    LET from == IF i < 0 THEN (IF Len(s) + i < 0 THEN 0 ELSE Len(s) + i)
                         ELSE (IF i > Len(s) THEN Len(s) ELSE i)
    IN  SubSeq(s, from + 1, Len(s))
SliceTo(s, j) ==
    LET to == IF j < 0 THEN (IF Len(s) + j < 0 THEN 0 ELSE Len(s) + j)
                       ELSE (IF j > Len(s) THEN Len(s) ELSE j)
    IN  SubSeq(s, 1, to)

\* Tailer.recent_lines (lines 129-130), as a function of _log.
recent_lines(n) ==
    LET keys == SliceFrom(Sorted(DOMAIN wlog), -n)
    IN  [i \in 1..Len(keys) |-> wlog[keys[i]]]

\* A start() without the tests of lines 115 and 117: it creates both tasks
\* whatever the attributes hold.
Tailer_start_unguarded ==
    /\ read_task' = "alive" /\ count' = 0
    /\ log_clear_task' = "alive"
    /\ loops' = [read |-> loops.read + 1, prune |-> loops.prune + 1]
    /\ tailer_running' = TRUE
    /\ UNCHANGED <<wlog, nlines, recent, asked, outVars, fanVars, tailerVars,
                   relayVars, poolVars, moreVars, regVars, appVars, cliVars,
                   thrVars>>

\* Tailer.start, lines 115-119, once app_alive holds: each task is created
\* unless one exists that is not done; a new _reader_loop begins with
\* count = 0 (line 165).
Tailer_start_call ==
    /\ IF read_task = "none" \/ Done(read_task)
          THEN read_task' = "alive" /\ count' = 0
          ELSE UNCHANGED <<read_task, count>>
    /\ IF log_clear_task = "none" \/ Done(log_clear_task)
          THEN log_clear_task' = "alive"
          ELSE UNCHANGED log_clear_task
    /\ loops' = [read |-> IF read_task = "none" \/ Done(read_task)
                             THEN loops.read + 1 ELSE loops.read,
                 prune |-> IF log_clear_task = "none" \/ Done(log_clear_task)
                              THEN loops.prune + 1 ELSE loops.prune]
    /\ tailer_running' = TRUE
    /\ UNCHANGED <<wlog, nlines, recent, asked, outVars, fanVars, tailerVars,
                   relayVars, poolVars, moreVars, regVars, appVars, cliVars,
                   thrVars>>

\* A stop() without the None tests and the `not done()` tests of lines 123
\* and 125: it cancels whatever the attributes hold.
Tailer_stop_unguarded ==
    /\ read_task' = "cancelling"
    /\ log_clear_task' = "cancelling"
    /\ tailer_running' = FALSE
    /\ UNCHANGED <<count, wlog, nlines, recent, asked, loops, outVars, fanVars,
                   tailerVars, relayVars, poolVars, moreVars, regVars, appVars,
                   cliVars, thrVars>>

\* Tailer.stop, lines 121-127.
Tailer_stop_call ==
    /\ read_task' = IF read_task \notin {"none", "done"}
                       THEN "cancelling" ELSE read_task
    /\ log_clear_task' = IF log_clear_task \notin {"none", "done"}
                            THEN "cancelling" ELSE log_clear_task
    /\ tailer_running' = FALSE
    /\ UNCHANGED <<count, wlog, nlines, recent, asked, loops, outVars, fanVars,
                   tailerVars, relayVars, poolVars, moreVars, regVars, appVars,
                   cliVars, thrVars>>

\* The event loop delivers CancelledError to a task at its await: neither
\* loop catches it (line 214 catches Exception only), the task is done.
Tailer_task_cancelled ==
    /\ read_task = "cancelling" \/ log_clear_task = "cancelling"
    /\ read_task' = IF read_task = "cancelling" THEN "done" ELSE read_task
    /\ log_clear_task' = IF log_clear_task = "cancelling"
                            THEN "done" ELSE log_clear_task
    /\ loops' = [read |-> IF read_task = "cancelling"
                             THEN loops.read - 1 ELSE loops.read,
                 prune |-> IF log_clear_task = "cancelling"
                              THEN loops.prune - 1 ELSE loops.prune]
    /\ UNCHANGED <<tailer_running, count, wlog, nlines, recent, asked,
                   outVars, fanVars, tailerVars, relayVars, poolVars,
                   moreVars, regVars, appVars, cliVars, thrVars>>

\* _reader_loop lines 200-204: the next line (the nlines+1-th in all) is
\* stored under the key count, and count goes up.
Tailer_reader_loop_store ==
    /\ read_task = "alive"
    /\ nlines < MaxStored
    /\ wlog' = [k \in DOMAIN wlog \cup {count} |->
                   IF k = count THEN nlines + 1 ELSE wlog[k]]
    /\ count' = count + 1
    /\ nlines' = nlines + 1
    /\ UNCHANGED <<read_task, log_clear_task, tailer_running, recent, asked,
                   loops, outVars, fanVars, tailerVars, relayVars, poolVars,
                   moreVars, regVars, appVars, cliVars, thrVars>>

\* _reader_loop lines 214-221: an exception in the loop ends the task.
Tailer_reader_loop_raises ==
    /\ read_task = "alive"
    /\ read_task' = "done"
    /\ loops' = [loops EXCEPT !.read = @ - 1]
    /\ UNCHANGED <<log_clear_task, tailer_running, count, wlog, nlines,
                   recent, asked, outVars, fanVars, tailerVars, relayVars,
                   poolVars, moreVars, regVars, appVars, cliVars, thrVars>>

\* _log_cleaner lines 155-162, one round after the sleep of 60 s: below
\* MAX_LOG entries nothing is done, otherwise the PRUNE_CHUNK lowest keys
\* are removed.
Tailer_log_cleaner ==
    /\ log_clear_task = "alive"
    /\ Cardinality(DOMAIN wlog) >= MAX_LOG
    /\ LET to_delete == SliceTo(Sorted(DOMAIN wlog), PRUNE_CHUNK)
           gone == {to_delete[i] : i \in 1..Len(to_delete)}
       IN  wlog' = [k \in DOMAIN wlog \ gone |-> wlog[k]]
    /\ UNCHANGED <<read_task, log_clear_task, tailer_running, count, nlines,
                   recent, asked, loops, outVars, fanVars, tailerVars, relayVars,
                   poolVars, moreVars, regVars, appVars, cliVars, thrVars>>

\* A caller reads recent_lines(n).
Tailer_recent_lines(n) ==
    /\ recent' = recent_lines(n)
    /\ asked' = n
    /\ UNCHANGED <<read_task, log_clear_task, tailer_running, count, wlog,
                   nlines, loops, outVars, fanVars, tailerVars, relayVars, poolVars,
                   moreVars, regVars, appVars, cliVars, thrVars>>

InitWindow ==
    /\ InitApps /\ appType = [a \in Apps |-> "base"]
    /\ TailerIdle /\ RelayIdle /\ PoolIdle /\ OutIdle /\ FanIdle
    /\ WinIdle /\ MoreIdle

NextWindow ==
    \/ Tailer_start_call
    \/ Tailer_stop_call
    \/ Tailer_task_cancelled
    \/ Tailer_reader_loop_store
    \/ Tailer_reader_loop_raises
    \/ Tailer_log_cleaner
    \/ \E n \in 0..MaxAsked : Tailer_recent_lines(n)

SpecWindow == InitWindow /\ [][NextWindow]_vars

\* Neither loop of the Tailer will run again.
LoopsCancelled ==
    /\ read_task \in {"none", "cancelling", "done"}
    /\ log_clear_task \in {"none", "cancelling", "done"}

\* C27: stop() leaves both loops cancelled; and a stop() on a Tailer that is
\* stopped already, or was never started, changes nothing.
C27_StopCancelsIdempotent ==
    [][Tailer_stop_call =>
          /\ LoopsCancelled' /\ ~tailer_running'
          /\ (LoopsCancelled /\ ~tailer_running) =>
                 UNCHANGED <<read_task, log_clear_task, tailer_running>>]_vars

\* A second stop() is called on a Tailer whose tasks the first one
\* cancelled and which have ended since.
C27_Witness ==
    /\ read_task = "done" /\ log_clear_task = "done"
    /\ ~tailer_running
    /\ nlines > 0

\* The lines stored so far are the numbers 1..nlines in the order of
\* storing; these are the ones a window holds.
Held == {wlog[k] : k \in DOMAIN wlog}

\* C29: the LogWindow never holds more than MAX_LOG lines, and the lines it
\* holds are the most recent ones.
C29_WindowBounded ==
    /\ Cardinality(DOMAIN wlog) <= MAX_LOG
    /\ Held = (nlines - Cardinality(Held) + 1)..nlines

\* C30: recent_lines(n) returns the min(n, size) most recently stored lines,
\* oldest first, and leaves the window as it was.
C30_RecentLines ==
    [][\A n \in 0..MaxAsked :
          Tailer_recent_lines(n) =>
              /\ recent' = SliceFrom(Sorted(Held),
                                     Cardinality(Held) -
                                       (IF n < Cardinality(Held)
                                           THEN n ELSE Cardinality(Held)))
              /\ wlog' = wlog]_vars

\* ------------------------------------------------ stop() of the workloads
\* C28: once stop() has returned, for every workload type the read and prune
\* loops of its Tailer are cancelled and its protocol client is
\* disconnected, whichever return statement stop() took.
C28_StopLeavesNothingRunning ==
    \A th \in Threads :
        (StopReturned(th) /\ ret[th] # "raise") =>
            /\ tail[Top(th).app] # "running"
            /\ ~Connected(Top(th).app)

\* ------------------------------------------------ indexes of the LogWindow
\* C34: a line is always stored under an index above every index the
\* LogWindow holds, also after a stop() and start() of the Tailer, so no
\* retained line is overwritten and recent_lines() lists the lines in the
\* order of their arrival.
C34_IndexesNeverReused ==
    [][Tailer_reader_loop_store =>
          /\ \A k \in DOMAIN wlog : k < count
          /\ \A i, j \in 1..Len(recent_lines(MaxStored))' :
                 i < j => recent_lines(MaxStored)'[i] < recent_lines(MaxStored)'[j]]_vars

\* --------------------------------------------- launch of a disabled workload
\* Task t is in launch(a), at or before the test of a's enabled flag
\* (lines 121-122), and a is disabled.
LaunchOfDisabled(t, a) ==
    /\ stack[Main(t)] # <<>>
    /\ LET call == stack[Main(t)][Len(stack[Main(t)])]
       IN  /\ call.fn = "launch"
           /\ call.app = a
           /\ call.pc \in {"l_begin", "l_after_end"}
    /\ ~enabled[a]

\* Some coroutine of task t takes the step.
StepOf(t) == \E th \in Threads : th[1] = t /\ stack'[th] # stack[th]

\* C37: a launch() of a disabled workload changes nothing in the Registry:
\* no step of the call changes Registry.current, stops a process or clears
\* the running flag of a workload.
C37_DisabledLaunchChangesNothing ==
    [][\A t \in Tasks, a \in Apps :
          (LaunchOfDisabled(t, a) /\ StepOf(t)) =>
              /\ current' = current
              /\ process' = process
              /\ running' = running]_vars

\* ------------------------------------------- start() raising inside launch()
\* Thread th is in launch(), back from the start() it awaited, which raised.
StartRaisedInLaunch(th) ==
    /\ Running(th, "launch")
    /\ Top(th).pc = "l_after_start"
    /\ ret[th] = "raise"

\* C36: when start() raises inside launch(), launch() ends with that
\* exception at its next step and leaves Registry.current alone; and
\* Registry.current comes to name a workload only in a launch() of that
\* workload whose start() has returned normally.
C36_CurrentOnlyAfterStart ==
    [][/\ \A th \in Threads :
             (StartRaisedInLaunch(th) /\ stack'[th] # stack[th]) =>
                 /\ stack'[th] = Tail(stack[th])
                 /\ current' = current
       /\ \A a \in Apps :
             (current' = a /\ current # a) =>
                 \E th \in Threads :
                     /\ Running(th, "launch")
                     /\ Top(th).app = a
                     /\ Top(th).pc = "l_after_start"
                     /\ ret[th] = "ok"]_vars

\* C36, reached: the process of an RCON workload is alive, the setup() its
\* start() awaited gave up, and start() has handed the exception to launch().
C36_Witness ==
    \E th \in Threads :
        /\ StartRaisedInLaunch(th)
        /\ appType[Top(th).app] \in RconTypes
        /\ check_running(Top(th).app)
        /\ current = NoApp

\* ------------------------------------- a workload that cannot be reached
\* C33: a workload whose process is alive is reported as running whether or
\* not its administrative protocol can be reached: when launch() of it
\* ends while its process is alive, it is the Registry's current workload.
C33_AliveBecomesCurrent ==
    [][\A th \in Threads :
          (/\ Running(th, "launch")
           /\ Len(stack[th]) = 1
           /\ stack'[th] = <<>>
           /\ check_running(Top(th).app)) =>
              current' = Top(th).app]_vars

\* ---------------------------------------- polling loops and failed sends
\* C32: no failure of a send() ends the polling loop that issued it: the
\* player-list task of a workload ends only in a stop() of that workload.
C32_PollingSurvivesSend ==
    [][\A a \in Apps :
          (players[a] /\ ~players'[a]) =>
              \E th \in Threads : InCall(th, "stop", a)]_vars

\* ------------------------------------------------- the loops of a Tailer
\* C40: a Tailer has at most one read loop task and at most one prune loop
\* task that is not done, whatever start() and stop() calls are made on it
\* and in whatever order; and a start() on a Tailer whose loops are alive
\* creates no task.
C40_AtMostOneLoopEach ==
    [][/\ loops'.read <= 1
       /\ loops'.prune <= 1
       /\ (Tailer_start_call /\ read_task = "alive"
              /\ log_clear_task = "alive") =>
              UNCHANGED <<loops, read_task, log_clear_task>>]_vars

\* C40, reached: start() was called right after stop(), while the cancelled
\* loops had not ended yet; lines were stored before.
C40_Witness ==
    /\ tailer_running
    /\ read_task = "cancelling" /\ log_clear_task = "cancelling"
    /\ loops = [read |-> 1, prune |-> 1]
    /\ nlines > 0

\* --------------------------------------------- the tasks of Activities
\* How many start() calls of one workload the model follows: every start()
\* adds tasks, so the number is capped.
MaxActs == 2

\* The end of SevenDays.start (lines 130-133) and of Minecraft.start (lines
\* 83-86): Players.start(), Activities.start(), self._running = True.
\* Activities.start (sevendays lines 267-273, minecraft lines 252-258) tests
\* _time_task, which is assigned in __init__ only and is None, so it never
\* returns early; it creates one task per task function of its provider;
\* `self.tasks.union(..)` builds a new set and leaves self.tasks empty.
\* Activities.stop (sevendays lines 275-284, minecraft lines 260-267)
\* cancels the tasks of self.tasks, that is none: the stop() actions leave
\* acts as it is.
Activities_start(th) ==
    /\ At(th, "start", "s_flag")
    /\ TypeOf(th) \in ActTypes
    /\ \A f \in task_funcs(TypeOf(th)) : acts[Top(th).app][f] < MaxActs
    /\ players' = [players EXCEPT ![Top(th).app] = TRUE]
    /\ acts' = [acts EXCEPT ![Top(th).app] =
                   [f \in ActFuncs |->
                       IF f \in task_funcs(TypeOf(th)) THEN @[f] + 1
                                                       ELSE @[f]]]
    /\ running' = [running EXCEPT ![Top(th).app] = TRUE]
    /\ Return(th, "ok")
    /\ UNCHANGED <<tailerVars, relayVars, poolVars, outVars, fanVars, winVars,
                   morder, ptime, stats, t_srcs, t_instances, t_pointer,
                   t_handed, regVars, process, tail, cliVars>>

\* Provider_Time._get_time, lines 313-316, and _getgamestats, lines
\* 328-331 (Provider_Day._get_time, minecraft lines 281-284): one turn of
\* the loop `while True` of a task that is alive, after its sleep:
\* await self.app._relay.send(..)
Provider_Time_get_time(a, f) ==
    /\ active = NoThread
    /\ acts[a][f] > 0
    /\ stack[Timer(a)] = <<>>
    /\ stack' = [stack EXCEPT ![Timer(a)] =
           << IF appType[a] \in RconTypes
                 THEN Frame("rcon_send", "rq_begin", a)
                 ELSE Frame("telnet_send", "tq_begin", a),
              Frame(f, "gt_sent", a) >>]
    /\ active' = Timer(a)
    /\ UNCHANGED <<ioVars, regVars, appVars, cliVars, ret>>

\* send() returned: the loop goes to its next turn
Provider_Time_get_time_sent(th) ==
    /\ \E f \in ActFuncs : At(th, f, "gt_sent")
    /\ ret[th] # "raise"
    /\ Return(th, "ok")
    /\ UNCHANGED <<ioVars, regVars, appVars, cliVars>>

\* send() raised: the loop has no handler, this task is over
Provider_Time_get_time_raised(th) ==
    /\ \E f \in ActFuncs : At(th, f, "gt_sent")
    /\ ret[th] = "raise"
    /\ acts' = [acts EXCEPT ![Top(th).app][Top(th).fn] = @ - 1]
    /\ Return(th, "raise")
    /\ UNCHANGED <<tailerVars, relayVars, poolVars, outVars, fanVars, winVars,
                   morder, ptime, stats, t_srcs, t_instances, t_pointer,
                   t_handed, regVars, appVars, cliVars>>

\* One command handler at a time over one SevenDays workload, through its
\* start() and stop() cycles, with the tasks of Activities sending through
\* the Telnet client.  (The turns of the player-list task are followed in
\* SpecClient; here it is created and cancelled, and sleeps in between.)
InitActs ==
    /\ Init
    /\ appType = [a \in Apps |-> IF a = "a1" THEN "sevendays" ELSE "base"]

ActsStep(th) ==
    \/ ManagerStep(th)
    \/ App_launch_process_ok(th)
    \/ App_launch_process_fail(th)
    \/ App_start_wait_alive(th)
    \/ App_start_telnet_setup(th)
    \/ App_start_setup_raised(th)
    \/ App_start_setup_done(th)
    \/ App_start_tailer(th)
    \/ Tailer_start_run(th)
    \/ Activities_start(th)
    \/ SevenDays_stop(th)
    \/ SevenDays_stop_saved(th)
    \/ SevenDays_stop_shutdown(th)
    \/ SevenDays_stop_send_raised(th)
    \/ SevenDays_stop_players(th)
    \/ SevenDays_stop_detach(th)
    \/ SevenDays_stop_terminate(th)
    \/ App_stop_done(th)
    \/ App_terminate_graceful(th)
    \/ App_terminate_ignored(th)
    \/ App_terminate_exited(th)
    \/ App_terminate_poll_exited(th)
    \/ App_terminate_poll_sleep(th)
    \/ App_terminate_kill(th)
    \/ App_terminate_scan(th)
    \/ App_terminate_scanned(th)
    \/ TelnetStep(th)
    \/ TelnetClient_setup_blocked(th)
    \/ Provider_Time_get_time_sent(th)
    \/ Provider_Time_get_time_raised(th)

NextActs ==
    \/ CmdLaunch("t1", "a1")
    \/ CmdEnd("t1", "a1")
    \/ \E th \in Threads : ActsStep(th)
    \/ \E f \in ActFuncs : Provider_Time_get_time("a1", f)
    \/ ProcExit("a1")

SpecActs == InitActs /\ [][NextActs]_vars

\* C38: through the start() and stop() cycles of a workload there is at
\* most one task of each of its polling functions (player list, time
\* query, game-stat query) at a time, and when stop() has returned none of
\* them is left to issue a send.
C38_OnePollingTaskEach ==
    /\ \A a \in Apps, f \in ActFuncs : acts[a][f] <= 1
    /\ \A th \in Threads :
          (StopReturned(th) /\ ret[th] # "raise") =>
              /\ ~players[Top(th).app]
              /\ \A f \in ActFuncs : acts[Top(th).app][f] = 0

\* ------------------------------------- teardown() and a setup() in flight
\* teardown() clears connected_event in its first statement (line 85) and
\* setup() sets it as soon as it holds the lock (line 52).  So while one
\* setup() is in progress, the event is clear exactly when a teardown() has
\* run since that setup() took the lock.  Here that teardown() has
\* returned, and no other send() or setup() is in progress.
TornDownInFlight(a) ==
    /\ ~telnet[a].event
    /\ \A th \in Threads : ~InCall(th, "telnet_teardown", a)
    /\ Cardinality({th \in Threads : InCall(th, "telnet_setup", a)}) = 1
    /\ \A th \in Threads :
          InCall(th, "telnet_send", a) => InCall(th, "telnet_setup", a)

\* C39: a setup() that was in flight when teardown() ran leaves no
\* connection open after it: no step connects a Telnet client on which a
\* teardown() has run and returned since the connecting setup() began,
\* when no other send() or setup() was started.
C39_NoConnectionAfterTeardown ==
    [][\A a \in Apps :
          (~is_connected(a) /\ is_connected(a)') => ~TornDownInFlight(a)]_vars

\* ------------------------------------ the matchers of Provider_Time
\* Strings are sequences of characters.  The lines a 7 Days to Die server
\* may answer to "gettime" and "getgamestat", and others that begin alike.
LineDay == <<"D", "a", "y", " ", "1", ",", " ", "0", "8", ":", "1", "5">>
LineStat ==
    <<"G", "a", "m", "e", "S", "t", "a", "t", ".", "Z", "o", "m", "b", "i",
    "e", "H", "o", "r", "d", "e", "M", "e", "t", "e", "r", "=", "1">>
LineEmptyStat ==
    <<"G", "a", "m", "e", "S", "t", "a", "t", ".", "A", " ", "=">>
LineNameStat == <<"G", "a", "m", "e", "S", "t", "a", "t", ".", "A", "=", "x">>
LineDaylight == <<"D", "a", "y", "l", "i", "g", "h", "t">>
LineInfo == <<"I", "N", "F", " ", "7">>
KeyZombieHordeMeter ==
    <<"Z", "o", "m", "b", "i", "e", "H", "o", "r", "d", "e", "M", "e", "t",
    "e", "r">>
LineBlank == <<>>
FeedSet ==
    {LineDay, LineStat, LineEmptyStat, LineNameStat, LineDaylight, LineInfo,
     LineBlank}
\* The longest feed.
MaxFeed == 2

\* str.split(sep) for a separator of one character
RECURSIVE Split(_, _)
Split(s, sep) ==
    IF \A i \in 1..Len(s) : s[i] # sep THEN <<s>>
    ELSE LET i == CHOOSE k \in 1..Len(s) :
                     s[k] = sep /\ \A j \in 1..(k - 1) : s[j] # sep
         IN  <<SubSeq(s, 1, i - 1)>> \o Split(SubSeq(s, i + 1, Len(s)), sep)

\* str.split(sep, 1)
SplitOnce(s, sep) ==
    IF \A i \in 1..Len(s) : s[i] # sep THEN <<s>>
    ELSE LET i == CHOOSE k \in 1..Len(s) :
                     s[k] = sep /\ \A j \in 1..(k - 1) : s[j] # sep
         IN  <<SubSeq(s, 1, i - 1), SubSeq(s, i + 1, Len(s))>>

\* str.replace(c, "")
RECURSIVE Remove(_, _)
Remove(s, c) ==
    IF s = <<>> THEN <<>>
    ELSE IF Head(s) = c THEN Remove(Tail(s), c)
    ELSE <<Head(s)>> \o Remove(Tail(s), c)

Last(q) == q[Len(q)]

DigitChars == <<"0", "1", "2", "3", "4", "5", "6", "7", "8", "9">>
IsDigits(s) ==
    /\ s # <<>>
    /\ \A i \in 1..Len(s) : \E d \in 1..Len(DigitChars) : DigitChars[d] = s[i]
DigitOf(c) == (CHOOSE d \in 1..Len(DigitChars) : DigitChars[d] = c) - 1
RECURSIVE Decimal(_)
Decimal(s) ==
    IF s = <<>> THEN 0
    ELSE Decimal(SubSeq(s, 1, Len(s) - 1)) * Len(DigitChars)
             + DigitOf(s[Len(s)])

\* int(s) on the strings of this alphabet (digits, letters, blanks):
\* blanks around the digits are ignored, leading zeros allowed; anything
\* else is a ValueError (written -1 here).
int(s) == IF IsDigits(Strip(s)) THEN Decimal(Strip(s)) ELSE -1

\* ast.literal_eval(s) on the strings of this alphabet with no blank: a
\* decimal literal (no leading zero before other digits) is its number;
\* a name other than True, False and None is a ValueError, a number with
\* a leading zero a SyntaxError (both written -1 here).
literal_eval(s) ==
    IF IsDigits(s) /\ (Len(s) = 1 \/ Head(s) # "0" \/ Decimal(s) = 0)
       THEN Decimal(s)
       ELSE -1

\* Provider_Time.match_time, lines 318-326: how it ends ("skip": the line
\* is not for it; "raise": it raises; "set": it assigns) and what it
\* assigns to _time.
match_time(line) ==
    IF ~IsPrefix(<<"D", "a", "y">>, line) THEN [end |-> "skip"]
    ELSE LET parts == Split(line, ",")
         IN  IF Len(parts) # 2 THEN [end |-> "raise"]
             ELSE LET day == Strip(Last(Split(parts[1], " ")))
                      hm == Split(Strip(parts[2]), ":")
                  IN  IF Len(hm) # 2 THEN [end |-> "raise"]
                      ELSE IF -1 \in {int(day), int(hm[1]), int(hm[2])}
                              THEN [end |-> "raise"]
                      ELSE [end |-> "set",
                            time |-> <<int(day), int(hm[1]), int(hm[2])>>]

\* A match_stats without its test of the prefix (lines 334-335).
match_stats_untested(line) ==
    LET stat == Remove(Last(SplitOnce(line, ".")), " ")
        kv == Split(stat, "=")
    IN  IF Len(kv) # 2 THEN [end |-> "raise"]
        ELSE IF kv[2] = <<>>
                THEN [end |-> "set", key |-> kv[1], val |-> "None"]
        ELSE IF literal_eval(kv[2]) = -1 THEN [end |-> "raise"]
        ELSE [end |-> "set", key |-> kv[1], val |-> literal_eval(kv[2])]

\* Provider_Time.match_stats, lines 333-345: how it ends, and the key and
\* the value it stores in stats.
match_stats(line) ==
    IF ~IsPrefix(<<"G", "a", "m", "e", "S", "t", "a", "t">>, line)
       THEN [end |-> "skip"]
    ELSE LET stat == Remove(Last(SplitOnce(line, ".")), " ")
             kv == Split(stat, "=")
         IN  IF Len(kv) # 2 THEN [end |-> "raise"]
             ELSE IF kv[2] = <<>>
                     THEN [end |-> "set", key |-> kv[1], val |-> "None"]
             ELSE IF literal_eval(kv[2]) = -1 THEN [end |-> "raise"]
             ELSE [end |-> "set", key |-> kv[1],
                   val |-> literal_eval(kv[2])]

\* What the matcher m does on the line.
Matched(m, line) ==
    IF m = "match_time" THEN match_time(line) ELSE match_stats(line)

\* _reader_loop lines 209-212: await matcher(line), and the matcher
\* returns, having stored what it parsed
Tailer_reader_loop_matched ==
    /\ rpc = "dispatch"
    /\ Matched(morder[midx], cur).end # "raise"
    /\ ptime' = IF morder[midx] = "match_time"
                      /\ Matched(morder[midx], cur).end = "set"
                   THEN Matched(morder[midx], cur).time ELSE ptime
    /\ stats' = IF morder[midx] = "match_stats"
                      /\ Matched(morder[midx], cur).end = "set"
                   THEN [k \in DOMAIN stats
                                  \cup {Matched(morder[midx], cur).key} |->
                            IF k = Matched(morder[midx], cur).key
                               THEN Matched(morder[midx], cur).val
                               ELSE stats[k]]
                   ELSE stats
    /\ IF midx < Len(morder)
          THEN midx' = midx + 1 /\ rpc' = rpc
          ELSE midx' = 1 /\ rpc' = "read"
    /\ UNCHANGED <<lines, kind, raises, pos, cur, got, tlog, relayVars,
                   poolVars, outVars, fanVars, winVars, morder, t_srcs,
                   t_instances, t_pointer, t_handed, acts, regVars, appVars,
                   cliVars, thrVars>>

\* lines 212-218: the matcher raises and the read loop ends
Tailer_reader_loop_match_raised ==
    /\ rpc = "dispatch"
    /\ Matched(morder[midx], cur).end = "raise"
    /\ rpc' = "dead"
    /\ UNCHANGED <<lines, kind, raises, pos, cur, midx, got, tlog, relayVars,
                   poolVars, extVars, regVars, appVars, cliVars, thrVars>>

\* A running Tailer over a feed of at most MaxFeed lines, with the two
\* matchers of Provider_Time registered: Tailer.start registers them in
\* the iteration order of a set (lines 89-90), that is in either order.
InitMatch ==
    /\ InitApps /\ appType = [a \in Apps |-> "base"]
    /\ RelayIdle /\ PoolIdle /\ OutIdle /\ FanIdle /\ WinIdle
    /\ lines \in UNION {[1..n -> FeedSet] : n \in 0..MaxFeed}
    /\ kind \in {"stream", "text"}
    /\ raises = {}
    /\ pos = 0
    /\ rpc = "read"
    /\ cur = <<>>
    /\ midx = 1
    /\ got = [m \in MatcherSet |-> <<>>]
    /\ tlog = <<>>
    /\ morder \in {<<"match_time", "match_stats">>,
                   <<"match_stats", "match_time">>}
    /\ ptime = <<>>
    /\ stats = <<>>
    /\ t_srcs = [a \in Apps |-> <<>>] /\ t_instances = <<>>
    /\ t_pointer = <<>> /\ t_handed = [a \in Apps |-> <<>>]
    /\ acts = [a \in Apps |-> [f \in ActFuncs |-> 0]]

NextMatch ==
    \/ Tailer_reader_loop_skip
    \/ Tailer_reader_loop_line
    \/ Tailer_reader_loop_matched
    \/ Tailer_reader_loop_match_raised

SpecMatch == InitMatch /\ [][NextMatch]_vars

\* The feed of the scenario.
ScenarioFeed == lines = <<LineDay, LineStat>>

\* C31: a Tailer fed "Day 1, 08:15" and "GameStat.ZombieHordeMeter=1" with
\* the time matcher and the stat matcher registered never loses its read
\* loop, and once both lines are dispatched the time is day 1, 08:15 and
\* the stats are ZombieHordeMeter = 1, in either order of registration.
C31_BothMatchersParse ==
    ScenarioFeed =>
        /\ rpc # "dead"
        /\ TailerQuiescent =>
              /\ ptime = <<1, 8, 15>>
              /\ DOMAIN stats = {KeyZombieHordeMeter}
              /\ stats[KeyZombieHordeMeter] = 1

\* C31, reached: both lines are dispatched, the stat matcher having been
\* registered first.
C31_Witness ==
    /\ ScenarioFeed
    /\ morder = <<"match_stats", "match_time">>
    /\ TailerQuiescent
    /\ ptime # <<>>
    /\ stats # <<>>


\* --------------------------------------------- the pool of Tailer instances
\* What start() hands to Tailer(..) as pointer: ETS its server_log, a Path
\* (ets line 103); SevenDays the StreamReader of its Telnet connection
\* (sevendays lines 120, 128); the others the stdout of their process
\* (factorio line 142, minecraft line 75, beammp line 157), which is
\* always there once check_running() has answered True.
BindTypes == {"ets", "sevendays", "factorio"}
\* The prefix of the key Tailer.__new__ makes of the pointer, lines 25-36.
\* The stdout of a Popen in text mode is a TextIOWrapper, which is no
\* instance of typing.TextIO or typing.BinaryIO, so line 34 makes its key
\* of the id of its name, the number of its file descriptor.
key_prefix(type) ==
    IF type = "ets" THEN "fileio"
    ELSE IF type = "sevendays" THEN "stream"
    ELSE "uknown"

\* The launches an app goes through.
MaxLaunches == 2
\* The file descriptors and the object ids the interpreter may hand out.
IdSet == {"i1", "i2", "i3", "i4"}

\* The sources that are still alive: those a pooled instance holds
\* (_pointer_text, _pointer_stream; the pool is never emptied) and those
\* of the latest launch of each app.
LiveSources ==
    {t_pointer[i] : i \in DOMAIN t_pointer}
        \cup {t_srcs[a][Len(t_srcs[a])] : a \in {b \in Apps : t_srcs[b] # <<>>}}

\* The ids a new source of the kind may get: a resolved path is that of
\* the app's server_log every time; a descriptor or an object id is any
\* one that no live source of the kind has.
NewIds(a, prefix) ==
    IF prefix = "fileio" THEN {a}
    ELSE IdSet \ {s.id : s \in {l \in LiveSources : l.kind = prefix}}

\* _launch_process (_app.py lines 142-157; for SevenDays the connection
\* setup() makes): the next process of the app and its output source
App_launch_process_source(a) ==
    /\ Len(t_srcs[a]) = Len(t_handed[a])
    /\ Len(t_srcs[a]) < MaxLaunches
    /\ \E id \in NewIds(a, key_prefix(appType[a])) :
          t_srcs' = [t_srcs EXCEPT ![a] =
                        Append(@, [app |-> a, n |-> Len(@) + 1,
                                   kind |-> key_prefix(appType[a]),
                                   id |-> id])]
    /\ UNCHANGED <<t_instances, t_pointer, t_handed, morder, ptime, stats,
                   acts, tailerVars, relayVars, poolVars, outVars, fanVars,
                   winVars, regVars, appVars, cliVars, thrVars>>

\* The key of a pointer, lines 25-36.
KeyOf(src) == <<src.kind, src.id>>

\* self._tail = Tailer(alive, pointer, output) in start(): __new__ hands
\* back the instance pooled under the pointer's key if there is one (lines
\* 38-39), and __init__ leaves an initialized instance as it is (lines
\* 50-51); else a new instance is pooled (40-42) and bound to the pointer
\* (58-69)
Tailer_new(a) ==
    /\ Len(t_handed[a]) < Len(t_srcs[a])
    /\ LET src == t_srcs[a][Len(t_srcs[a])]
           key == KeyOf(src)
       IN  IF key \in DOMAIN t_instances
              THEN /\ t_handed' = [t_handed EXCEPT ![a] =
                                      Append(@, t_instances[key])]
                   /\ UNCHANGED <<t_instances, t_pointer>>
              ELSE /\ t_pointer' = Append(t_pointer, src)
                   /\ t_instances' =
                          [k \in DOMAIN t_instances \cup {key} |->
                              IF k = key THEN Len(t_pointer) + 1
                                         ELSE t_instances[k]]
                   /\ t_handed' = [t_handed EXCEPT ![a] =
                                      Append(@, Len(t_pointer) + 1)]
    /\ UNCHANGED <<t_srcs, morder, ptime, stats, acts, tailerVars, relayVars,
                   poolVars, outVars, fanVars, winVars, regVars, appVars,
                   cliVars, thrVars>>

\* start() raises before it makes a Tailer (factorio line 134, sevendays
\* line 120, the SystemError of ets line 105), and _tail stays as it was
App_start_raised_early(a) ==
    /\ Len(t_handed[a]) < Len(t_srcs[a])
    /\ t_handed' = [t_handed EXCEPT ![a] = Append(@, 0)]
    /\ UNCHANGED <<t_srcs, t_instances, t_pointer, morder, ptime, stats,
                   acts, tailerVars, relayVars, poolVars, outVars, fanVars,
                   winVars, regVars, appVars, cliVars, thrVars>>

InitBind ==
    /\ InitApps /\ appType \in [Apps -> BindTypes]
    /\ TailerIdle /\ RelayIdle /\ PoolIdle /\ ExtIdle

NextBind ==
    \E a \in Apps :
        \/ App_launch_process_source(a)
        \/ Tailer_new(a)
        \/ App_start_raised_early(a)

SpecBind == InitBind /\ [][NextBind]_vars

\* C35: the Tailer a start() attaches was bound, when it was constructed,
\* to the output source of the process that start() launched, and never to
\* that of an earlier process.
C35_TailerBoundToNewSource ==
    \A a \in Apps : \A i \in 1..Len(t_handed[a]) :
        t_handed[a][i] # 0 => t_pointer[t_handed[a][i]] = t_srcs[a][i]

====
